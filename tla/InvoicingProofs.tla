--------------------------- MODULE InvoicingProofs ---------------------------
(* Proofs about which invoices there are (Invoicing,                        *)
(* src/api/src/invoices/invoices.service.ts and periodFor of                *)
(* contracts.service.ts), for every number of requests, every set of cycle  *)
(* days and every history.                                                  *)
EXTENDS Invoicing, ContractsProofs, WellFoundedInduction

Generating == {"customer", "period", "existing", "bill", "write"}
HasPeriod == {"existing", "bill", "write"}

(* What the operations in flight have read: a generate that has its period  *)
(* has one that closed, and a payment or a cancellation points at a row.    *)
RequestsOK ==
  \A w \in Workers :
    /\ pc[w] \in Generating => req[w].month \in Months
    /\ pc[w] \in HasPeriod => req[w].start <= req[w].end /\ req[w].end < today
    /\ pc[w] \in {"pay", "cancel"} => Exists(req[w].start)
Inv == InvoicingTypeOK /\ OnlyClosedPeriods /\ RequestsOK

RowType == InvoiceRow \cup {NoInvoice}
PcType == {"idle", "pay", "cancel"} \cup Generating
CronType == {"waits", "runs", "done", "failed"}

LEMMA NoRequestType == NoRequest \in Request /\ CycleDaysAllowed \subseteq Int /\ 1 \in CycleDaysAllowed
<1>1. FirstDay[0] \in Days
  <2>1. 0 \in 0 .. (LastMonth + 1) /\ LastMonth + 1 \in 0 .. (LastMonth + 1) /\ 0 < LastMonth + 1
    BY BoundsAreNat
  <2>2. FirstDay[0] \in Nat /\ FirstDay[LastMonth + 1] \in Nat /\ FirstDay[0] < FirstDay[LastMonth + 1]
    BY <2>1, CalendarAssumption
  <2> QED BY <2>2 DEF Days
<1>2. 1 \in CycleDaysAllowed /\ CycleDaysAllowed \subseteq Int
  BY CalendarAssumption DEF CycleDaysAllowed
<1> QED BY <1>1, <1>2 DEF NoRequest, Request

LEMMA RowExists ==
  ASSUME InvoicingTypeOK, NEW s \in Days, Exists(s)
  PROVE  /\ invoices[s] \in InvoiceRow /\ invoices[s].end \in Days
         /\ invoices[s].generated \in WorkDays
BY DEF InvoicingTypeOK, Exists, InvoiceRow

LEMMA RowIsARow == \A row \in InvoiceRow : row # NoInvoice
<1> SUFFICES ASSUME NEW row \in InvoiceRow, row = NoInvoice PROVE FALSE
  OBVIOUS
<1>1. row.status \in InvoiceStatus
  BY DEF InvoiceRow
<1>2. row.status = "NONE"
  BY DEF NoInvoice
<1> QED BY <1>1, <1>2 DEF InvoiceStatus

(* A step of one operation that writes no row.                              *)
LEMMA LocalStep ==
  ASSUME Inv, NEW w \in Workers, NEW p \in PcType, NEW r \in Request,
         pc' = [pc EXCEPT ![w] = p], req' = [req EXCEPT ![w] = r],
         UNCHANGED <<invoices, contractVars, today, cycleDay, dayChanges, missed>>,
         cronRun' \in CronType,
         p \in Generating => r.month \in Months,
         p \in HasPeriod => r.start <= r.end /\ r.end < today,
         p \in {"pay", "cancel"} => Exists(r.start)
  PROVE  Inv'
<1>1. InvoicingTypeOK'
  <2>1. ContractsTypeOK'
    BY DEF Inv, InvoicingTypeOK, ContractsTypeOK, contractVars
  <2>2. pc' \in [Workers -> PcType] /\ req' \in [Workers -> Request]
    BY DEF Inv, InvoicingTypeOK, PcType, Generating
  <2> QED BY <2>1, <2>2 DEF Inv, InvoicingTypeOK, PcType, Generating, CronType
<1>2. OnlyClosedPeriods'
  BY DEF Inv, OnlyClosedPeriods, Exists
<1>3. RequestsOK'
  <2> SUFFICES ASSUME NEW v \in Workers
               PROVE  /\ pc'[v] \in Generating => req'[v].month \in Months
                      /\ pc'[v] \in HasPeriod => req'[v].start <= req'[v].end /\ req'[v].end < today'
                      /\ pc'[v] \in {"pay", "cancel"} => invoices'[req'[v].start] # NoInvoice
    BY DEF RequestsOK, Exists
  <2>2. /\ pc'[v] = IF v = w THEN p ELSE pc[v]
        /\ req'[v] = IF v = w THEN r ELSE req[v]
    BY DEF Inv, InvoicingTypeOK
  <2>3. CASE v = w
    BY <2>2, <2>3 DEF Exists
  <2>4. CASE v # w
    BY <2>2, <2>4 DEF Inv, RequestsOK, Exists
  <2> QED BY <2>3, <2>4
<1> QED BY <1>1, <1>2, <1>3 DEF Inv

(* A step that writes one row, of a period that has closed, and ends its    *)
(* operation.                                                               *)
LEMMA RowStep ==
  ASSUME Inv, NEW w \in Workers, NEW s \in Days, NEW row \in InvoiceRow,
         invoices' = [invoices EXCEPT ![s] = row],
         s <= row.end, row.end < row.generated,
         Finish(w), UNCHANGED <<contractVars, today, cycleDay, dayChanges, missed>>
  PROVE  Inv'
<1>1. InvoicingTypeOK'
  <2>1. ContractsTypeOK'
    BY DEF Inv, InvoicingTypeOK, ContractsTypeOK, contractVars
  <2>2. invoices' \in [Days -> RowType]
    BY DEF Inv, InvoicingTypeOK, RowType
  <2>3. pc' \in [Workers -> PcType] /\ req' \in [Workers -> Request] /\ cronRun' \in CronType
    BY NoRequestType DEF Inv, InvoicingTypeOK, PcType, Generating, CronType, Finish
  <2> QED
    BY <2>1, <2>2, <2>3 DEF Inv, InvoicingTypeOK, PcType, Generating, CronType, RowType
<1>2. ASSUME NEW t \in Days
      PROVE  /\ invoices'[t] = IF t = s THEN row ELSE invoices[t]
             /\ invoices[t] # NoInvoice => invoices'[t] # NoInvoice
  <2>1. invoices'[t] = IF t = s THEN row ELSE invoices[t]
    BY DEF Inv, InvoicingTypeOK
  <2> QED BY <2>1, RowIsARow
<1>3. OnlyClosedPeriods'
  BY <1>2 DEF Inv, OnlyClosedPeriods, Exists
<1>4. RequestsOK'
  <2> SUFFICES ASSUME NEW v \in Workers
               PROVE  /\ pc'[v] \in Generating => req'[v].month \in Months
                      /\ pc'[v] \in HasPeriod => req'[v].start <= req'[v].end /\ req'[v].end < today'
                      /\ pc'[v] \in {"pay", "cancel"} => invoices'[req'[v].start] # NoInvoice
    BY DEF RequestsOK, Exists
  <2>1. /\ pc'[v] = IF v = w THEN "idle" ELSE pc[v]
        /\ req'[v] = IF v = w THEN NoRequest ELSE req[v]
    BY DEF Inv, InvoicingTypeOK, Finish
  <2>2. CASE v = w
    BY <2>1, <2>2 DEF Generating, HasPeriod
  <2>3. CASE v # w
    <3>1. req[v].start \in Days
      BY DEF Inv, InvoicingTypeOK, Request
    <3>2. pc'[v] \in {"pay", "cancel"} => invoices'[req'[v].start] # NoInvoice
      BY <1>2, <2>1, <2>3, <3>1 DEF Inv, RequestsOK, Exists
    <3>3. /\ pc'[v] \in Generating => req'[v].month \in Months
          /\ pc'[v] \in HasPeriod => req'[v].start <= req'[v].end /\ req'[v].end < today'
      BY <2>1, <2>3 DEF Inv, RequestsOK
    <3> QED BY <3>2, <3>3
  <2> QED BY <2>2, <2>3
<1> QED BY <1>1, <1>3, <1>4 DEF Inv
-----------------------------------------------------------------------------
(* The start periodFor returns: a day of the calendar, not past the end.    *)
LEMMA StartsForType ==
  ASSUME InvoicingTypeOK, NEW m \in Months, NEW D \in CycleDaysAllowed,
         NEW s \in StartsFor(m, D)
  PROVE  s \in Days /\ s <= PeriodEnd(m, D)
<1>1. /\ PeriodStart(m, D) \in Days /\ PeriodEnd(m, D) \in Days
      /\ PeriodStart(m, D) <= PeriodEnd(m, D)
  BY PeriodInCalendar
<1>2. CASE s = PeriodStart(m, D)
  BY <1>1, <1>2
<1>3. CASE \E t \in Latest(Previous(PeriodEnd(m, D))) : s = invoices[t].end + 1
  <2>1. PICK t \in Previous(PeriodEnd(m, D)) : s = invoices[t].end + 1
    BY <1>3 DEF Latest
  <2>2. invoices[t].end \in Days /\ invoices[t].end < PeriodEnd(m, D)
    BY <2>1, RowExists DEF Previous, Live
  <2>3. FirstDay[0] \in Int /\ FirstDay[LastMonth + 1] \in Int
    <3>1. 0 \in 0 .. (LastMonth + 1) /\ LastMonth + 1 \in 0 .. (LastMonth + 1)
      BY BoundsAreNat
    <3> QED BY <3>1, CalendarAssumption
  <2>4. invoices[t].end \in Int /\ PeriodEnd(m, D) \in Int
    BY <1>1, <2>2, DayIsInt
  <2> QED BY <1>1, <2>1, <2>2, <2>3, <2>4 DEF Days
<1> QED BY <1>2, <1>3 DEF StartsFor

LEMMA FinishStep ==
  ASSUME Inv, NEW w \in Workers, Finish(w),
         UNCHANGED <<invoices, contractVars, today, cycleDay, dayChanges, missed>>
  PROVE  Inv'
<1>1. cronRun' \in CronType
  BY DEF Finish, Inv, InvoicingTypeOK, CronType
<1>2. "idle" \in PcType /\ "idle" \notin Generating \cup HasPeriod \cup {"pay", "cancel"}
  BY DEF PcType, Generating, HasPeriod
<1> QED BY <1>1, <1>2, NoRequestType, LocalStep DEF Finish

LEMMA CronStartInv ==
  ASSUME Inv, CronStart, UNCHANGED <<contractVars, today>>
  PROVE  Inv'
<1> DEFINE r == [NoRequest EXCEPT !.month = LastClosedCycle(today, cycleDay)]
<1>1. r \in Request /\ r.month \in Months
  BY NoRequestType DEF CronStart, Request, NoRequest
<1>2. Cron \in Workers /\ cronRun' \in CronType /\ "customer" \in PcType
      /\ "customer" \notin HasPeriod \cup {"pay", "cancel"}
  BY DEF CronStart, Workers, CronType, PcType, Generating, HasPeriod
<1>3. pc' = [pc EXCEPT ![Cron] = "customer"] /\ req' = [req EXCEPT ![Cron] = r]
  BY DEF CronStart
<1> HIDE DEF r
<1> QED BY <1>1, <1>2, <1>3, LocalStep DEF CronStart

LEMMA StaffGenerateInv ==
  ASSUME Inv, NEW w \in Staff, StaffGenerate(w), UNCHANGED <<contractVars, today>>
  PROVE  Inv'
<1>1. PICK m \in Months : /\ pc' = [pc EXCEPT ![w] = "customer"]
                          /\ req' = [req EXCEPT ![w] = [NoRequest EXCEPT !.month = m]]
  BY DEF StaffGenerate
<1> DEFINE r == [NoRequest EXCEPT !.month = m]
<1>2. r \in Request /\ r.month \in Months
  BY NoRequestType DEF Request, NoRequest
<1>3. w \in Workers /\ cronRun' \in CronType /\ "customer" \in PcType
      /\ "customer" \notin HasPeriod \cup {"pay", "cancel"}
  BY DEF StaffGenerate, NotByCron, Workers, CronType, PcType, Generating, HasPeriod, Inv, InvoicingTypeOK
<1>4. req' = [req EXCEPT ![w] = r]
  BY <1>1
<1> HIDE DEF r
<1> QED BY <1>1, <1>2, <1>3, <1>4, LocalStep DEF StaffGenerate, NotByCron

LEMMA ReadCustomerInv ==
  ASSUME Inv, NEW w \in Workers, ReadCustomer(w), UNCHANGED <<contractVars, today>>
  PROVE  Inv'
<1> DEFINE r == [req[w] EXCEPT !.day = cycleDay]
<1>1. req[w] \in Request /\ cycleDay \in CycleDaysAllowed /\ req[w].month \in Months
  BY DEF Inv, InvoicingTypeOK, RequestsOK, ReadCustomer, Generating
<1>2. r \in Request /\ r.month \in Months
  BY <1>1 DEF Request
<1>3. cronRun' \in CronType /\ "period" \in PcType /\ "period" \notin HasPeriod \cup {"pay", "cancel"}
  BY DEF ReadCustomer, NotByCron, CronType, PcType, Generating, HasPeriod, Inv, InvoicingTypeOK
<1>4. pc' = [pc EXCEPT ![w] = "period"] /\ req' = [req EXCEPT ![w] = r]
  BY DEF ReadCustomer, Inv, InvoicingTypeOK
<1> HIDE DEF r
<1> QED BY <1>2, <1>3, <1>4, LocalStep DEF ReadCustomer, NotByCron

LEMMA ReadPeriodInv ==
  ASSUME Inv, NEW w \in Workers, ReadPeriod(w), UNCHANGED <<contractVars, today>>
  PROVE  Inv'
<1> DEFINE e == PeriodEnd(req[w].month, req[w].day)
<1>1. req[w] \in Request /\ req[w].month \in Months /\ req[w].day \in CycleDaysAllowed
  BY DEF Inv, InvoicingTypeOK, RequestsOK, ReadPeriod, Generating, Request
<1>2. CASE Finish(w)
  BY <1>2, FinishStep DEF ReadPeriod
<1>3. CASE ~Finish(w)
  <2>1. /\ Closed(e) /\ pc' = [pc EXCEPT ![w] = "existing"] /\ UNCHANGED cronRun
        /\ \E s \in StartsFor(req[w].month, req[w].day) :
             req' = [req EXCEPT ![w].start = s, ![w].end = e]
    BY <1>3 DEF ReadPeriod
  <2>2. PICK s \in StartsFor(req[w].month, req[w].day) :
             req' = [req EXCEPT ![w].start = s, ![w].end = e]
    BY <2>1
  <2>3. s \in Days /\ s <= e /\ e \in Days
    BY <1>1, <2>2, StartsForType, PeriodInCalendar DEF Inv
  <2> DEFINE r == [req[w] EXCEPT !.start = s, !.end = e]
  <2>4. r \in Request /\ r.month \in Months /\ r.start <= r.end /\ r.end < today
    BY <1>1, <2>1, <2>3 DEF Request, Closed
  <2>5. cronRun' \in CronType /\ "existing" \in PcType /\ "existing" \notin {"pay", "cancel"}
    BY <2>1 DEF CronType, PcType, Generating, Inv, InvoicingTypeOK
  <2>6. req' = [req EXCEPT ![w] = r]
    BY <2>2 DEF Inv, InvoicingTypeOK
  <2> HIDE DEF r
  <2> QED BY <2>1, <2>4, <2>5, <2>6, LocalStep DEF ReadPeriod
<1> QED BY <1>2, <1>3

LEMMA ReadExistingInv ==
  ASSUME Inv, NEW w \in Workers, ReadExisting(w), UNCHANGED <<contractVars, today>>
  PROVE  Inv'
<1>1. CASE Finish(w)
  BY <1>1, FinishStep DEF ReadExisting
<1>2. CASE ~Finish(w)
  <2> DEFINE b == Replaces(w, req[w].start)
             r == [req[w] EXCEPT !.replacing = b]
  <2>1. pc' = [pc EXCEPT ![w] = "bill"] /\ UNCHANGED cronRun
        /\ req' = [req EXCEPT ![w].replacing = b]
    BY <1>2 DEF ReadExisting
  <2>2. /\ req[w] \in Request /\ req[w].month \in Months
        /\ req[w].start <= req[w].end /\ req[w].end < today
    BY DEF Inv, InvoicingTypeOK, RequestsOK, ReadExisting, Generating, HasPeriod
  <2>3. b \in BOOLEAN
    BY DEF Replaces
  <2>4. req' = [req EXCEPT ![w] = r]
    BY <2>1 DEF Inv, InvoicingTypeOK
  <2> HIDE DEF b
  <2>5. r \in Request /\ r.month \in Months /\ r.start <= r.end /\ r.end < today
    BY <2>2, <2>3 DEF Request
  <2>6. cronRun' \in CronType /\ "bill" \in PcType /\ "bill" \notin {"pay", "cancel"}
    BY <2>1 DEF CronType, PcType, Generating, Inv, InvoicingTypeOK
  <2> HIDE DEF r
  <2> QED BY <2>1, <2>4, <2>5, <2>6, LocalStep DEF ReadExisting
<1> QED BY <1>1, <1>2

LEMMA ResolveBillingInv ==
  ASSUME Inv, NEW w \in Workers, ResolveBilling(w), UNCHANGED <<contractVars, today>>
  PROVE  Inv'
<1>1. CASE Finish(w)
  BY <1>1, FinishStep DEF ResolveBilling
<1>2. CASE ~Finish(w)
  <2>1. PICK c \in BilledBy(req[w].start, req[w].end) :
          /\ pc' = [pc EXCEPT ![w] = "write"]
          /\ req' = [req EXCEPT ![w].contract = c]
          /\ UNCHANGED cronRun
    BY <1>2 DEF ResolveBilling
  <2> DEFINE r == [req[w] EXCEPT !.contract = c]
  <2>2. /\ req[w] \in Request /\ req[w].month \in Months
        /\ req[w].start <= req[w].end /\ req[w].end < today
    BY DEF Inv, InvoicingTypeOK, RequestsOK, ResolveBilling, Generating, HasPeriod
  <2>3. c \in Nat
    BY DEF BilledBy, Covering
  <2>4. req' = [req EXCEPT ![w] = r]
    BY <2>1 DEF Inv, InvoicingTypeOK
  <2>5. r \in Request /\ r.month \in Months /\ r.start <= r.end /\ r.end < today
    BY <2>2, <2>3 DEF Request
  <2>6. cronRun' \in CronType /\ "write" \in PcType /\ "write" \notin {"pay", "cancel"}
    BY <2>1 DEF CronType, PcType, Generating, Inv, InvoicingTypeOK
  <2> HIDE DEF r
  <2> QED BY <2>1, <2>4, <2>5, <2>6, LocalStep DEF ResolveBilling
<1> QED BY <1>1, <1>2

LEMMA WriteInvoiceInv ==
  ASSUME Inv, NEW w \in Workers, WriteInvoice(w), UNCHANGED <<contractVars, today>>
  PROVE  Inv'
<1>1. CASE UNCHANGED invoices
  BY <1>1, FinishStep DEF WriteInvoice
<1>2. CASE invoices' = [invoices EXCEPT ![req[w].start] = Snapshot(w)]
  <2>1. req[w] \in Request /\ req[w].start <= req[w].end /\ req[w].end < today /\ today \in WorkDays
    BY DEF Inv, InvoicingTypeOK, RequestsOK, WriteInvoice, HasPeriod, ContractsTypeOK
  <2>2. /\ req[w].start \in Days /\ Snapshot(w) \in InvoiceRow
        /\ req[w].start <= Snapshot(w).end /\ Snapshot(w).end < Snapshot(w).generated
    BY <2>1 DEF Snapshot, InvoiceRow, InvoiceStatus, Request
  <2> QED BY <1>2, <2>2, RowStep DEF WriteInvoice
<1> QED BY <1>1, <1>2 DEF WriteInvoice

LEMMA MarkPaidInv ==
  ASSUME Inv, NEW w \in Staff, MarkPaid(w), UNCHANGED <<contractVars, today>>
  PROVE  Inv'
<1>1. PICK s \in Days : /\ Live(s) /\ pc' = [pc EXCEPT ![w] = "pay"]
                        /\ req' = [req EXCEPT ![w].start = s]
  BY DEF MarkPaid, Payable
<1> DEFINE r == [req[w] EXCEPT !.start = s]
<1>2. w \in Workers /\ req[w] \in Request /\ "pay" \in PcType /\ "pay" \notin Generating \cup HasPeriod
  BY DEF Workers, Inv, InvoicingTypeOK, PcType, Generating, HasPeriod
<1>3. r \in Request /\ Exists(r.start)
  BY <1>1, <1>2 DEF Request, Live
<1>4. req' = [req EXCEPT ![w] = r] /\ cronRun' \in CronType
  BY <1>1 DEF MarkPaid, NotByCron, CronType, Inv, InvoicingTypeOK
<1> HIDE DEF r
<1> QED BY <1>1, <1>2, <1>3, <1>4, LocalStep DEF MarkPaid, NotByCron

LEMMA CancelInvoiceInv ==
  ASSUME Inv, NEW w \in Staff, CancelInvoice(w), UNCHANGED <<contractVars, today>>
  PROVE  Inv'
<1>1. PICK s \in Days : /\ Exists(s) /\ pc' = [pc EXCEPT ![w] = "cancel"]
                        /\ req' = [req EXCEPT ![w].start = s]
  BY DEF CancelInvoice, Cancellable
<1> DEFINE r == [req[w] EXCEPT !.start = s]
<1>2. w \in Workers /\ req[w] \in Request /\ "cancel" \in PcType
      /\ "cancel" \notin Generating \cup HasPeriod
  BY DEF Workers, Inv, InvoicingTypeOK, PcType, Generating, HasPeriod
<1>3. r \in Request /\ Exists(r.start)
  BY <1>1, <1>2 DEF Request
<1>4. req' = [req EXCEPT ![w] = r] /\ cronRun' \in CronType
  BY <1>1 DEF CancelInvoice, NotByCron, CronType, Inv, InvoicingTypeOK
<1> HIDE DEF r
<1> QED BY <1>1, <1>2, <1>3, <1>4, LocalStep DEF CancelInvoice, NotByCron

LEMMA StatusWriteInv ==
  ASSUME Inv, NEW w \in Staff, WritePaid(w) \/ WriteCancelled(w), UNCHANGED <<contractVars, today>>
  PROVE  Inv'
<1> DEFINE s == req[w].start
<1>1. w \in Workers /\ s \in Days /\ Exists(s)
  BY DEF Workers, Inv, InvoicingTypeOK, Request, RequestsOK, WritePaid, WriteCancelled
<1>2. /\ invoices[s] \in InvoiceRow /\ s <= invoices[s].end
      /\ invoices[s].end < invoices[s].generated
  BY <1>1, RowExists DEF Inv, OnlyClosedPeriods
<1>3. CASE WritePaid(w)
  <2> DEFINE row == [invoices[s] EXCEPT !.status = "PAID", !.paid = TRUE]
  <2>1. /\ row \in InvoiceRow /\ row.end = invoices[s].end
        /\ row.generated = invoices[s].generated
    BY <1>2 DEF InvoiceRow, InvoiceStatus
  <2>2. invoices' = [invoices EXCEPT ![s] = row]
    BY <1>1, <1>3 DEF WritePaid, Inv, InvoicingTypeOK
  <2> HIDE DEF row, s
  <2> QED BY <1>1, <1>2, <1>3, <2>1, <2>2, RowStep DEF WritePaid
<1>4. CASE WriteCancelled(w)
  <2> DEFINE row == [invoices[s] EXCEPT !.status = "CANCELLED"]
  <2>1. /\ row \in InvoiceRow /\ row.end = invoices[s].end
        /\ row.generated = invoices[s].generated
    BY <1>2 DEF InvoiceRow, InvoiceStatus
  <2>2. invoices' = [invoices EXCEPT ![s] = row]
    BY <1>1, <1>4 DEF WriteCancelled, Inv, InvoicingTypeOK
  <2> HIDE DEF row, s
  <2> QED BY <1>1, <1>2, <1>4, <2>1, <2>2, RowStep DEF WriteCancelled
<1> QED BY <1>3, <1>4

LEMMA AbortInv ==
  ASSUME Inv, NEW w \in Workers, Abort(w), UNCHANGED <<contractVars, today>>
  PROVE  Inv'
<1>1. cronRun' \in CronType
  BY DEF Abort, Inv, InvoicingTypeOK, CronType
<1>2. "idle" \in PcType /\ "idle" \notin Generating \cup HasPeriod \cup {"pay", "cancel"}
  BY DEF PcType, Generating, HasPeriod
<1> QED BY <1>1, <1>2, NoRequestType, LocalStep DEF Abort

(* The date, the cycle day and the contracts may change under the           *)
(* operations in flight: a period that has closed stays closed.             *)
LEMMA EnvironmentInv ==
  ASSUME Inv, UNCHANGED <<invoices, pc, req>>,
         ContractsTypeOK', cycleDay' \in CycleDaysAllowed, missed' \in Nat,
         dayChanges' \in Nat, cronRun' \in CronType, today' = today \/ today' = today + 1
  PROVE  Inv'
<1>1. InvoicingTypeOK'
  BY DEF Inv, InvoicingTypeOK, CronType
<1>2. OnlyClosedPeriods'
  BY DEF Inv, OnlyClosedPeriods, Exists
<1>3. today \in Int /\ today <= today'
  <2>1. today \in WorkDays
    BY DEF Inv, InvoicingTypeOK, ContractsTypeOK
  <2>2. today \in Int
    BY <2>1, CalendarInts
  <2> QED BY <2>2
<1>4. \A w \in Workers : req[w].end \in Int
  BY CalendarInts DEF Inv, InvoicingTypeOK, Request
<1>5. RequestsOK'
  <2>1. today' \in Int
    BY <1>3
  <2> QED BY <1>3, <1>4, <2>1 DEF Inv, RequestsOK, Exists
<1> QED BY <1>1, <1>2, <1>5 DEF Inv

LEMMA InitInv == InvoicingInit => Inv
<1> SUFFICES ASSUME InvoicingInit PROVE Inv
  OBVIOUS
<1>1. ContractsTypeOK
  BY ContractsInitType DEF InvoicingInit
<1>2. cycleDay \in CycleDaysAllowed /\ invoices \in [Days -> RowType] /\ OnCycle(cycleDay, invoices)
  BY InvoicingAssumption DEF InvoicingInit, RowType
<1>3. InvoicingTypeOK
  BY <1>1, <1>2, NoRequestType DEF InvoicingInit, InvoicingTypeOK, RowType
<1>4. OnlyClosedPeriods
  <2> SUFFICES ASSUME NEW s \in Days, Exists(s)
               PROVE  s <= invoices[s].end /\ invoices[s].end < invoices[s].generated
    BY DEF OnlyClosedPeriods
  <2>1. PICK m \in Months : /\ s = PeriodStart(m, cycleDay)
                            /\ invoices[s].end = PeriodEnd(m, cycleDay)
                            /\ invoices[s].end < invoices[s].generated
    BY <1>2 DEF OnCycle, Exists
  <2> QED BY <1>2, <2>1, PeriodInCalendar
<1>5. RequestsOK
  BY DEF InvoicingInit, RequestsOK, Generating, HasPeriod
<1> QED BY <1>3, <1>4, <1>5 DEF Inv

LEMMA StepInv == Inv /\ [Next]_vars => Inv'
<1> SUFFICES ASSUME Inv, [Next]_vars PROVE Inv'
  OBVIOUS
<1>1. CASE CronStart /\ UNCHANGED <<contractVars, today>>
  BY <1>1, CronStartInv
<1>2. ASSUME NEW w \in Workers, GenerateStep(w) \/ Abort(w), UNCHANGED <<contractVars, today>>
      PROVE  Inv'
  BY <1>2, ReadCustomerInv, ReadPeriodInv, ReadExistingInv, ResolveBillingInv,
     WriteInvoiceInv, AbortInv DEF GenerateStep
<1>3. ASSUME NEW w \in Staff, StaffStep(w), UNCHANGED <<contractVars, today>>
      PROVE  Inv'
  BY <1>3, StaffGenerateInv, MarkPaidInv, CancelInvoiceInv, StatusWriteInv DEF StaffStep
<1>4. CASE SetCycleDay /\ UNCHANGED <<contractVars, today>>
  <2>1. ContractsTypeOK'
    BY <1>4 DEF Inv, InvoicingTypeOK, ContractsTypeOK, contractVars
  <2>2. cycleDay' \in CycleDaysAllowed /\ dayChanges' \in Nat
    BY <1>4, InvoicingAssumption DEF SetCycleDay, Inv, InvoicingTypeOK
  <2> QED
    BY <1>4, <2>1, <2>2, EnvironmentInv
    DEF SetCycleDay, NotByCron, Inv, InvoicingTypeOK, CronType
<1>5. CASE NextDay /\ UNCHANGED contractVars
  <2>1. ContractsTypeOK'
    BY <1>5 DEF NextDay, Inv, InvoicingTypeOK, ContractsTypeOK, contractVars
  <2>2. missed' \in Nat /\ cronRun' \in CronType
    BY <1>5 DEF NextDay, Inv, InvoicingTypeOK, CronType
  <2> QED
    BY <1>5, <2>1, <2>2, EnvironmentInv DEF NextDay, Inv, InvoicingTypeOK
<1>6. ASSUME NEW o \in ContractOps, ContractStep(o), UNCHANGED <<invoiceVars, today>>
      PROVE  Inv'
  <2>1. ContractsTypeOK'
    BY <1>6, ContractStepType DEF Inv, InvoicingTypeOK
  <2> QED
    BY <1>6, <2>1, EnvironmentInv DEF invoiceVars, Inv, InvoicingTypeOK, CronType
<1>7. CASE UNCHANGED vars
  <2>1. ContractsTypeOK'
    BY <1>7 DEF vars, Inv, InvoicingTypeOK, ContractsTypeOK, contractVars
  <2> QED
    BY <1>7, <2>1, EnvironmentInv DEF vars, invoiceVars, Inv, InvoicingTypeOK, CronType
<1> QED BY <1>1, <1>2, <1>3, <1>4, <1>5, <1>6, <1>7 DEF Next

(* Rows, requests and the job's state keep their shape in every history.    *)
THEOREM InvoicingTyped == Spec => []InvoicingTypeOK
<1>1. Inv => InvoicingTypeOK
  BY DEF Inv
<1> QED BY <1>1, InitInv, StepInv, PTL DEF Spec

(* "invoices can only be generated after the period ends": whatever runs    *)
(* between the queries of generate, no row bills a day before it is over.   *)
THEOREM OnlyClosedPeriodsBilled == Spec => []OnlyClosedPeriods
<1>1. Inv => OnlyClosedPeriods
  BY DEF Inv
<1> QED BY <1>1, InitInv, StepInv, PTL DEF Spec
-----------------------------------------------------------------------------
(* While the cycle day never changes, every row, cancelled or not, is       *)
(* exactly one period of the cycle: periodFor stitches only where the       *)
(* previous invoice already ends, so its start is the period's own.         *)
RowsOnCycle ==
  \A s \in Days : Exists(s) =>
    \E m \in Months : s = PeriodStart(m, cycleDay) /\ invoices[s].end = PeriodEnd(m, cycleDay)
ReadsOnCycle ==
  \A w \in Workers :
    /\ pc[w] = "period" => req[w].day = cycleDay
    /\ pc[w] \in HasPeriod => \E m \in Months : /\ req[w].start = PeriodStart(m, cycleDay)
                                               /\ req[w].end = PeriodEnd(m, cycleDay)
FixedInv == Inv /\ RowsOnCycle /\ ReadsOnCycle

LEMMA StitchIsStart ==
  ASSUME Inv, RowsOnCycle, NEW m \in Months, NEW s \in StartsFor(m, cycleDay)
  PROVE  s = PeriodStart(m, cycleDay)
<1> DEFINE D == cycleDay
<1>0. D \in CycleDaysAllowed
  BY DEF Inv, InvoicingTypeOK
<1>1. CASE s # PeriodStart(m, D)
  <2>1. PICK t \in Previous(PeriodEnd(m, D)) : s = invoices[t].end + 1 /\ Stitches(m, D, t)
    BY <1>1 DEF StartsFor, Latest
  <2>2. /\ t \in Days /\ Exists(t) /\ invoices[t].end < PeriodEnd(m, D)
    BY <2>1 DEF Previous, Live
  <2>3. PICK n \in Months : invoices[t].end = PeriodEnd(n, D)
    BY <2>2 DEF RowsOnCycle
  <2>4. /\ PeriodEnd(n, D) \in Int /\ PeriodEnd(m, D) \in Int
        /\ PeriodStart(n, D) \in Int /\ PeriodStart(m, D) \in Int
        /\ PeriodStart(n, D) <= PeriodEnd(n, D) /\ PeriodStart(m, D) <= PeriodEnd(m, D)
        /\ m \in Int /\ n \in Int
    BY <1>0, PeriodInCalendar, DayIsInt DEF Months
  <2>5. n < m
    <3>1. n # m
      BY <2>2, <2>3, <2>4
    <3>2. ~(m < n)
      <4> SUFFICES ASSUME m < n PROVE FALSE
        OBVIOUS
      <4>1. PeriodEnd(m, D) < PeriodStart(n, D)
        BY <1>0, PeriodsOrdered
      <4> QED BY <2>2, <2>3, <2>4, <4>1
    <3> QED BY <2>4, <3>1, <3>2
  <2>6. PeriodEnd(n, D) < PeriodStart(m, D)
    BY <1>0, <2>5, PeriodsOrdered
  <2>7. Competencia(PeriodEnd(n, D)) = m - 1
    BY <2>1, <2>3, <2>4, <2>6 DEF Stitches
  <2>8. n = m - 1
    BY <1>0, <2>7, CompetenciaOfPeriod
  <2>9. PeriodStart(m, D) = PeriodEnd(n, D) + 1
    BY <1>0, <2>8, PeriodsTile
  <2> QED BY <1>1, <2>1, <2>3, <2>9
<1> QED BY <1>1

\* Only staff change the cycle day.
LEMMA CycleDayStays ==
  ASSUME [Next]_vars, ~SetCycleDay
  PROVE  cycleDay' = cycleDay
BY DEF Next, CronStart, GenerateStep, ReadCustomer, ReadPeriod, ReadExisting, ResolveBilling,
       WriteInvoice, Abort, StaffStep, StaffGenerate, MarkPaid, WritePaid, CancelInvoice,
       WriteCancelled, NextDay, invoiceVars, vars

LEMMA FixedStep ==
  ASSUME FixedInv, cycleDay' = cycleDay, [Next]_vars
  PROVE  RowsOnCycle' /\ ReadsOnCycle'
<1>0. cycleDay' = cycleDay
  OBVIOUS
<1>a. Inv /\ RowsOnCycle /\ ReadsOnCycle
  BY DEF FixedInv
<1>b. /\ pc \in [Workers -> PcType] /\ req \in [Workers -> Request]
      /\ invoices \in [Days -> RowType]
  BY <1>a DEF Inv, InvoicingTypeOK, PcType, Generating, RowType
<1>1. ASSUME NEW w \in Workers, UNCHANGED invoices,
             NEW p, NEW r, pc' = [pc EXCEPT ![w] = p], req' = [req EXCEPT ![w] = r],
             p = "period" => r.day = cycleDay,
             p \in HasPeriod => \E m \in Months : /\ r.start = PeriodStart(m, cycleDay)
                                                 /\ r.end = PeriodEnd(m, cycleDay)
      PROVE  RowsOnCycle' /\ ReadsOnCycle'
  <2>1. RowsOnCycle'
    BY <1>0, <1>1, <1>a DEF RowsOnCycle, Exists
  <2>2. ASSUME NEW v \in Workers
        PROVE  /\ pc'[v] = "period" => req'[v].day = cycleDay
               /\ pc'[v] \in HasPeriod =>
                    \E m \in Months : /\ req'[v].start = PeriodStart(m, cycleDay)
                                      /\ req'[v].end = PeriodEnd(m, cycleDay)
    <3>1. pc'[v] = (IF v = w THEN p ELSE pc[v]) /\ req'[v] = (IF v = w THEN r ELSE req[v])
      BY <1>1, <1>b
    <3>2. CASE v = w
      BY <1>1, <3>1, <3>2
    <3>3. CASE v # w
      BY <1>a, <3>1, <3>3 DEF ReadsOnCycle
    <3> QED BY <3>2, <3>3
  <2>3. ReadsOnCycle'
    BY <1>0, <2>2 DEF ReadsOnCycle, PeriodStart, PeriodEnd
  <2> QED BY <2>1, <2>3
<1>2. ASSUME NEW w \in Workers, NEW s \in Days, NEW row \in InvoiceRow,
             invoices' = [invoices EXCEPT ![s] = row], Finish(w),
             \E m \in Months : s = PeriodStart(m, cycleDay) /\ row.end = PeriodEnd(m, cycleDay)
      PROVE  RowsOnCycle' /\ ReadsOnCycle'
  <2>1. ASSUME NEW t \in Days, invoices'[t] # NoInvoice
        PROVE  \E m \in Months : /\ t = PeriodStart(m, cycleDay)
                                 /\ invoices'[t].end = PeriodEnd(m, cycleDay)
    <3>1. invoices'[t] = IF t = s THEN row ELSE invoices[t]
      BY <1>2, <1>b
    <3>2. CASE t = s
      BY <1>2, <3>1, <3>2
    <3>3. CASE t # s
      BY <1>a, <2>1, <3>1, <3>3 DEF RowsOnCycle, Exists
    <3> QED BY <3>2, <3>3
  <2>2. RowsOnCycle'
    BY <1>0, <2>1 DEF RowsOnCycle, Exists, PeriodStart, PeriodEnd
  <2>3. ReadsOnCycle'
    <3>1. ASSUME NEW v \in Workers
          PROVE  /\ pc'[v] = "period" => req'[v].day = cycleDay
                 /\ pc'[v] \in HasPeriod =>
                      \E m \in Months : /\ req'[v].start = PeriodStart(m, cycleDay)
                                        /\ req'[v].end = PeriodEnd(m, cycleDay)
      <4>1. /\ pc'[v] = IF v = w THEN "idle" ELSE pc[v]
            /\ req'[v] = IF v = w THEN NoRequest ELSE req[v]
        BY <1>2, <1>b DEF Finish
      <4>2. CASE v = w
        BY <4>1, <4>2 DEF HasPeriod
      <4>3. CASE v # w
        BY <1>a, <4>1, <4>3 DEF ReadsOnCycle
      <4> QED BY <4>2, <4>3
    <3> QED BY <1>0, <3>1 DEF ReadsOnCycle, PeriodStart, PeriodEnd
  <2> QED BY <2>2, <2>3
<1>3. CASE UNCHANGED <<invoices, pc, req>>
  BY <1>0, <1>3, <1>a DEF RowsOnCycle, ReadsOnCycle, Exists
<1>4. ASSUME NEW w \in Workers, Finish(w), UNCHANGED invoices
      PROVE  RowsOnCycle' /\ ReadsOnCycle'
  <2>1. "idle" # "period" /\ "idle" \notin HasPeriod
    BY DEF HasPeriod
  <2> QED BY <1>1, <1>4, <2>1 DEF Finish
<1>5. ASSUME CronStart PROVE RowsOnCycle' /\ ReadsOnCycle'
  <2>1. "customer" # "period" /\ "customer" \notin HasPeriod /\ Cron \in Workers
    BY DEF HasPeriod, Workers
  <2> QED BY <1>1, <1>5, <2>1 DEF CronStart
<1>6. ASSUME NEW w \in Staff, StaffGenerate(w) \/ MarkPaid(w) \/ CancelInvoice(w)
      PROVE  RowsOnCycle' /\ ReadsOnCycle'
  <2>1. PICK p \in {"customer", "pay", "cancel"} : \E r :
          pc' = [pc EXCEPT ![w] = p] /\ req' = [req EXCEPT ![w] = r] /\ UNCHANGED invoices
    <3>1. CASE StaffGenerate(w)
      BY <3>1 DEF StaffGenerate
    <3>2. CASE MarkPaid(w)
      <4>1. PICK s \in Days : pc' = [pc EXCEPT ![w] = "pay"] /\ req' = [req EXCEPT ![w].start = s]
        BY <3>2 DEF MarkPaid, Payable
      <4>2. req' = [req EXCEPT ![w] = [req[w] EXCEPT !.start = s]]
        BY <1>b, <4>1
      <4> QED BY <3>2, <4>1, <4>2 DEF MarkPaid
    <3>3. CASE CancelInvoice(w)
      <4>1. PICK s \in Days : pc' = [pc EXCEPT ![w] = "cancel"] /\ req' = [req EXCEPT ![w].start = s]
        BY <3>3 DEF CancelInvoice, Cancellable
      <4>2. req' = [req EXCEPT ![w] = [req[w] EXCEPT !.start = s]]
        BY <1>b, <4>1
      <4> QED BY <3>3, <4>1, <4>2 DEF CancelInvoice
    <3> QED BY <1>6, <3>1, <3>2, <3>3
  <2>2. p # "period" /\ p \notin HasPeriod /\ w \in Workers
    BY <2>1 DEF HasPeriod, Workers
  <2> QED BY <1>1, <2>1, <2>2
<1>7. ASSUME NEW w \in Workers, ReadCustomer(w) PROVE RowsOnCycle' /\ ReadsOnCycle'
  <2> DEFINE r == [req[w] EXCEPT !.day = cycleDay]
  <2>1. /\ pc' = [pc EXCEPT ![w] = "period"] /\ req' = [req EXCEPT ![w] = r]
        /\ UNCHANGED invoices /\ r.day = cycleDay /\ "period" \notin HasPeriod
    BY <1>7, <1>b DEF ReadCustomer, Request, HasPeriod
  <2> HIDE DEF r
  <2> QED BY <1>1, <2>1
<1>8. ASSUME NEW w \in Workers, ReadPeriod(w) PROVE RowsOnCycle' /\ ReadsOnCycle'
  <2>1. CASE Finish(w)
    BY <1>4, <1>8, <2>1 DEF ReadPeriod
  <2>2. CASE ~Finish(w)
    <3> DEFINE m == req[w].month
               e == PeriodEnd(m, cycleDay)
    <3>1. m \in Months /\ req[w].day = cycleDay
      BY <1>8, <1>a DEF ReadPeriod, ReadsOnCycle, Inv, RequestsOK, Generating
    <3>2. PICK s \in StartsFor(m, cycleDay) :
            pc' = [pc EXCEPT ![w] = "existing"] /\ req' = [req EXCEPT ![w].start = s, ![w].end = e]
      BY <1>8, <2>2, <3>1 DEF ReadPeriod
    <3>3. s = PeriodStart(m, cycleDay)
      BY <1>a, <3>1, <3>2, StitchIsStart
    <3> DEFINE r == [req[w] EXCEPT !.start = s, !.end = e]
    <3>4. req' = [req EXCEPT ![w] = r] /\ r.start = s /\ r.end = e
      BY <1>b, <3>2 DEF Request
    <3>5. UNCHANGED invoices /\ "existing" # "period"
      BY <1>8 DEF ReadPeriod
    <3> HIDE DEF r
    <3> QED BY <1>1, <3>1, <3>2, <3>3, <3>4, <3>5
  <2> QED BY <2>1, <2>2
<1>9. ASSUME NEW w \in Workers, ReadExisting(w) \/ ResolveBilling(w)
      PROVE  RowsOnCycle' /\ ReadsOnCycle'
  <2>0. UNCHANGED invoices
    BY <1>9 DEF ReadExisting, ResolveBilling
  <2>1. CASE Finish(w)
    BY <1>4, <2>0, <2>1
  <2>2. CASE ~Finish(w)
    <3>1. \E m \in Months : req[w].start = PeriodStart(m, cycleDay) /\ req[w].end = PeriodEnd(m, cycleDay)
      BY <1>9, <1>a DEF ReadExisting, ResolveBilling, ReadsOnCycle, HasPeriod
    <3>2. PICK p \in {"bill", "write"} : \E r :
            /\ pc' = [pc EXCEPT ![w] = p] /\ req' = [req EXCEPT ![w] = r]
            /\ r.start = req[w].start /\ r.end = req[w].end
      <4>1. CASE ReadExisting(w)
        <5> DEFINE r == [req[w] EXCEPT !.replacing = Replaces(w, req[w].start)]
        <5>1. /\ pc' = [pc EXCEPT ![w] = "bill"] /\ req' = [req EXCEPT ![w] = r]
              /\ r.start = req[w].start /\ r.end = req[w].end
          BY <1>b, <2>2, <4>1 DEF ReadExisting, Request
        <5> HIDE DEF r
        <5> QED BY <5>1
      <4>2. CASE ResolveBilling(w)
        <5>1. PICK c : pc' = [pc EXCEPT ![w] = "write"] /\ req' = [req EXCEPT ![w].contract = c]
          BY <2>2, <4>2 DEF ResolveBilling
        <5> DEFINE r == [req[w] EXCEPT !.contract = c]
        <5>2. /\ req' = [req EXCEPT ![w] = r]
              /\ r.start = req[w].start /\ r.end = req[w].end
          BY <1>b, <5>1 DEF Request
        <5> HIDE DEF r
        <5> QED BY <5>1, <5>2
      <4> QED BY <1>9, <4>1, <4>2
    <3>3. p # "period"
      BY <3>2
    <3> QED BY <1>1, <2>0, <3>1, <3>2, <3>3
  <2> QED BY <2>1, <2>2
<1>10. ASSUME NEW w \in Workers, WriteInvoice(w) PROVE RowsOnCycle' /\ ReadsOnCycle'
  <2>1. CASE UNCHANGED invoices
    BY <1>4, <1>10, <2>1 DEF WriteInvoice
  <2>2. CASE invoices' = [invoices EXCEPT ![req[w].start] = Snapshot(w)]
    <3>1. \E m \in Months : req[w].start = PeriodStart(m, cycleDay) /\ req[w].end = PeriodEnd(m, cycleDay)
      BY <1>10, <1>a DEF WriteInvoice, ReadsOnCycle, HasPeriod
    <3>2. req[w].start \in Days /\ Snapshot(w) \in InvoiceRow /\ Snapshot(w).end = req[w].end
      BY <1>a, <1>b DEF Snapshot, InvoiceRow, InvoiceStatus, Request, Inv, InvoicingTypeOK, ContractsTypeOK
    <3>3. Finish(w) /\ cycleDay' = cycleDay
      BY <1>10 DEF WriteInvoice
    <3>4. \E m \in Months : /\ req[w].start = PeriodStart(m, cycleDay)
                           /\ Snapshot(w).end = PeriodEnd(m, cycleDay)
      BY <3>1, <3>2
    <3> QED BY <1>2, <2>2, <3>2, <3>3, <3>4
  <2> QED BY <1>10, <2>1, <2>2 DEF WriteInvoice
<1>11. ASSUME NEW w \in Staff, WritePaid(w) \/ WriteCancelled(w)
       PROVE  RowsOnCycle' /\ ReadsOnCycle'
  <2> DEFINE s == req[w].start
  <2>1. w \in Workers /\ s \in Days /\ Exists(s) /\ invoices[s] \in InvoiceRow
    BY <1>11, <1>a, <1>b, RowExists DEF Workers, Request, Inv, RequestsOK, WritePaid, WriteCancelled
  <2>2. \E m \in Months : s = PeriodStart(m, cycleDay) /\ invoices[s].end = PeriodEnd(m, cycleDay)
    BY <1>a, <2>1 DEF RowsOnCycle
  <2>3. PICK row \in InvoiceRow : invoices' = [invoices EXCEPT ![s] = row] /\ row.end = invoices[s].end
    <3>1. CASE WritePaid(w)
      <4> DEFINE row == [invoices[s] EXCEPT !.status = "PAID", !.paid = TRUE]
      <4>1. row \in InvoiceRow /\ row.end = invoices[s].end
        BY <2>1 DEF InvoiceRow, InvoiceStatus
      <4>2. invoices' = [invoices EXCEPT ![s] = row]
        BY <1>b, <2>1, <3>1 DEF WritePaid
      <4> HIDE DEF row, s
      <4> QED BY <4>1, <4>2
    <3>2. CASE WriteCancelled(w)
      <4> DEFINE row == [invoices[s] EXCEPT !.status = "CANCELLED"]
      <4>1. row \in InvoiceRow /\ row.end = invoices[s].end
        BY <2>1 DEF InvoiceRow, InvoiceStatus
      <4>2. invoices' = [invoices EXCEPT ![s] = row]
        BY <1>b, <2>1, <3>2 DEF WriteCancelled
      <4> HIDE DEF row, s
      <4> QED BY <4>1, <4>2
    <3> QED BY <1>11, <3>1, <3>2
  <2> HIDE DEF s
  <2> QED BY <1>2, <1>11, <2>1, <2>2, <2>3 DEF WritePaid, WriteCancelled
<1>12. ASSUME NEW w \in Workers, Abort(w) PROVE RowsOnCycle' /\ ReadsOnCycle'
  <2>1. "idle" # "period" /\ "idle" \notin HasPeriod
    BY DEF HasPeriod
  <2> QED BY <1>1, <1>12, <2>1 DEF Abort
<1>13. CASE SetCycleDay \/ NextDay \/ UNCHANGED invoiceVars \/ UNCHANGED vars
  BY <1>3, <1>13 DEF SetCycleDay, NextDay, invoiceVars, vars
<1> QED
  BY <1>5, <1>6, <1>7, <1>8, <1>9, <1>10, <1>11, <1>12, <1>13 DEF Next, GenerateStep, StaffStep

LEMMA FixedStart == InvoicingInit => FixedInv
<1> SUFFICES ASSUME InvoicingInit PROVE RowsOnCycle /\ ReadsOnCycle
  BY InitInv DEF FixedInv
<1>1. OnCycle(cycleDay, invoices)
  BY InvoicingAssumption DEF InvoicingInit
<1> QED BY <1>1 DEF OnCycle, RowsOnCycle, ReadsOnCycle, Exists, InvoicingInit, HasPeriod

THEOREM FixedCycleDayInv == "setCycleDay" \notin StaffMay => (Spec => []FixedInv)
<1> SUFFICES ASSUME "setCycleDay" \notin StaffMay PROVE Spec => []FixedInv
  OBVIOUS
<1>1. FixedInv /\ [Next]_vars => FixedInv'
  <2> SUFFICES ASSUME FixedInv, [Next]_vars PROVE FixedInv'
    OBVIOUS
  <2>1. cycleDay' = cycleDay
    BY CycleDayStays DEF SetCycleDay
  <2> QED BY <2>1, StepInv, FixedStep DEF FixedInv
<1> QED BY <1>1, FixedStart, PTL DEF Spec

LEMMA FixedOnce == FixedInv => LivePeriodsDisjoint /\ OnePerCompetencia
<1> SUFFICES ASSUME FixedInv, NEW s \in Days, NEW t \in Days, Exists(s), Exists(t)
             PROVE  /\ s < t => invoices[s].end < t
                    /\ s # t => Competencia(invoices[s].end) # Competencia(invoices[t].end)
  BY DEF LivePeriodsDisjoint, OnePerCompetencia, Live
<1>1. PICK m \in Months : s = PeriodStart(m, cycleDay) /\ invoices[s].end = PeriodEnd(m, cycleDay)
  BY DEF FixedInv, RowsOnCycle
<1>2. PICK n \in Months : t = PeriodStart(n, cycleDay) /\ invoices[t].end = PeriodEnd(n, cycleDay)
  BY DEF FixedInv, RowsOnCycle
<1>3. cycleDay \in CycleDaysAllowed
  BY DEF FixedInv, Inv, InvoicingTypeOK
<1>4. /\ PeriodStart(n, cycleDay) <= PeriodEnd(n, cycleDay) /\ s \in Int /\ t \in Int
      /\ m \in Int /\ n \in Int /\ PeriodEnd(n, cycleDay) \in Int
  BY <1>3, PeriodInCalendar, DayIsInt DEF Months
<1>5. s < t => m < n
  <2> SUFFICES ASSUME s < t, ~(m < n) PROVE FALSE
    OBVIOUS
  <2>1. n < m
    BY <1>1, <1>2, <1>4
  <2>2. PeriodEnd(n, cycleDay) < PeriodStart(m, cycleDay)
    BY <1>3, <2>1, PeriodsOrdered
  <2> QED BY <1>1, <1>2, <1>4, <2>2
<1>6. m < n => PeriodEnd(m, cycleDay) < PeriodStart(n, cycleDay)
  BY <1>3, PeriodsOrdered
<1>7. m = Competencia(invoices[s].end) /\ n = Competencia(invoices[t].end)
  BY <1>1, <1>2, <1>3, CompetenciaOfPeriod
<1> QED BY <1>1, <1>2, <1>5, <1>6, <1>7

(* No day is billed twice, and a month has one invoice, cancelled or not:   *)
(* true of every interleaving of requests and the job as long as nobody     *)
(* changes the customer's billingCycleDay.                                  *)
THEOREM NoDayBilledTwice ==
  "setCycleDay" \notin StaffMay => (Spec => [](LivePeriodsDisjoint /\ OnePerCompetencia))
<1> SUFFICES ASSUME "setCycleDay" \notin StaffMay
             PROVE  Spec => [](LivePeriodsDisjoint /\ OnePerCompetencia)
  OBVIOUS
<1>1. Spec => []FixedInv
  BY FixedCycleDayInv
<1> QED BY <1>1, FixedOnce, PTL
-----------------------------------------------------------------------------
(* Which steps write rows, and which operation a step belongs to.           *)
Acts(w) ==
  \/ w = Cron /\ CronStart
  \/ GenerateStep(w) \/ Abort(w)
  \/ w \in Staff /\ StaffStep(w)
Writes(w) == WriteInvoice(w) \/ (w \in Staff /\ (WritePaid(w) \/ WriteCancelled(w)))

LEMMA StepsAreActs ==
  ASSUME [Next]_vars
  PROVE  UNCHANGED <<invoices, pc, req>> \/ \E w \in Workers : Acts(w)
<1>1. CASE CronStart
  BY <1>1 DEF Acts, Workers
<1>2. ASSUME NEW w \in Staff, StaffStep(w) PROVE \E v \in Workers : Acts(v)
  BY <1>2 DEF Acts, Workers
<1>3. CASE SetCycleDay \/ NextDay \/ UNCHANGED invoiceVars \/ UNCHANGED vars
  BY <1>3 DEF SetCycleDay, NextDay, invoiceVars, vars
<1> QED BY <1>1, <1>2, <1>3 DEF Next, Acts

LEMMA OnlyWrites ==
  ASSUME NEW w \in Workers, Acts(w)
  PROVE  UNCHANGED invoices \/ Writes(w)
BY DEF Acts, Writes, CronStart, GenerateStep, ReadCustomer, ReadPeriod, ReadExisting,
       ResolveBilling, Abort, StaffStep, StaffGenerate, MarkPaid, CancelInvoice

\* An operation moves alone.
LEMMA OthersRest ==
  ASSUME Inv, NEW w \in Workers, Acts(w), NEW v \in Workers, v # w
  PROVE  pc'[v] = pc[v] /\ req'[v] = req[v]
<1>1. pc \in [Workers -> PcType] /\ req \in [Workers -> Request]
  BY DEF Inv, InvoicingTypeOK, PcType, Generating
<1>2. CASE w = Cron /\ CronStart
  BY <1>1, <1>2 DEF CronStart
<1>3. CASE ReadCustomer(w)
  BY <1>1, <1>3 DEF ReadCustomer
<1>4. CASE ReadPeriod(w)
  BY <1>1, <1>4 DEF ReadPeriod, Finish
<1>5. CASE ReadExisting(w)
  BY <1>1, <1>5 DEF ReadExisting, Finish
<1>6. CASE ResolveBilling(w)
  BY <1>1, <1>6 DEF ResolveBilling, Finish
<1>7. CASE WriteInvoice(w) \/ WritePaid(w) \/ WriteCancelled(w) \/ Abort(w)
  BY <1>1, <1>7 DEF WriteInvoice, WritePaid, WriteCancelled, Abort, Finish
<1>8. CASE StaffGenerate(w)
  BY <1>1, <1>8 DEF StaffGenerate
<1>9. CASE MarkPaid(w)
  BY <1>1, <1>9 DEF MarkPaid
<1>10. CASE CancelInvoice(w)
  BY <1>1, <1>10 DEF CancelInvoice
<1> QED BY <1>2, <1>3, <1>4, <1>5, <1>6, <1>7, <1>8, <1>9, <1>10 DEF Acts, GenerateStep, StaffStep

\* The row a write leaves.
LEMMA WrittenRow ==
  ASSUME Inv, NEW w \in Workers, Writes(w)
  PROVE  /\ req[w].start \in Days
         /\ \A t \in Days : t # req[w].start => invoices'[t] = invoices[t]
         /\ WriteInvoice(w) => invoices'[req[w].start] =
              (IF req[w].replacing \/ ~Exists(req[w].start) THEN Snapshot(w) ELSE invoices[req[w].start])
         /\ WritePaid(w) => invoices'[req[w].start] =
              [invoices[req[w].start] EXCEPT !.status = "PAID", !.paid = TRUE]
         /\ WriteCancelled(w) => invoices'[req[w].start] =
              [invoices[req[w].start] EXCEPT !.status = "CANCELLED"]
<1>1. req[w].start \in Days /\ invoices \in [Days -> RowType]
  BY DEF Inv, InvoicingTypeOK, Request, RowType
<1>2. CASE WriteInvoice(w)
  BY <1>1, <1>2 DEF WriteInvoice, WritePaid, WriteCancelled, Exists
<1>3. CASE WritePaid(w)
  <2> DEFINE s == req[w].start
             row == [invoices[s] EXCEPT !.status = "PAID", !.paid = TRUE]
  <2>1. invoices' = [invoices EXCEPT ![s] = row]
    BY <1>1, <1>3 DEF WritePaid
  <2>2. ~WriteInvoice(w) /\ ~WriteCancelled(w)
    BY <1>3 DEF WritePaid, WriteInvoice, WriteCancelled
  <2> HIDE DEF row
  <2> QED BY <1>1, <2>1, <2>2 DEF row
<1>4. CASE WriteCancelled(w)
  <2> DEFINE s == req[w].start
             row == [invoices[s] EXCEPT !.status = "CANCELLED"]
  <2>1. invoices' = [invoices EXCEPT ![s] = row]
    BY <1>1, <1>4 DEF WriteCancelled
  <2>2. ~WriteInvoice(w) /\ ~WritePaid(w)
    BY <1>4 DEF WritePaid, WriteInvoice, WriteCancelled
  <2> HIDE DEF row
  <2> QED BY <1>1, <2>1, <2>2 DEF row
<1> QED BY <1>2, <1>3, <1>4 DEF Writes
-----------------------------------------------------------------------------
(* The nightly job never replaces a row: only a request of staff reads a    *)
(* CANCELLED row as one to write again.                                     *)
JobReplacesNothing == pc[Cron] \in {"bill", "write"} => ~req[Cron].replacing

\* What ReadExisting leaves of an operation's request, and what keeps it.
LEMMA ReplacingStep ==
  ASSUME Inv, NEW w \in Workers, Acts(w), pc'[w] \in {"bill", "write"}
  PROVE  /\ UNCHANGED invoices
         /\ req'[w].start = req[w].start
         /\ \/ pc[w] = "existing" /\ req'[w].replacing = Replaces(w, req[w].start)
            \/ pc[w] = "bill" /\ req'[w].replacing = req[w].replacing
<1>1. pc \in [Workers -> PcType] /\ req \in [Workers -> Request]
  BY DEF Inv, InvoicingTypeOK, PcType, Generating
<1>2. CASE ReadExisting(w)
  <2>1. ~Finish(w)
    BY <1>1 DEF Finish
  <2>2. req' = [req EXCEPT ![w].replacing = Replaces(w, req[w].start)] /\ UNCHANGED invoices
    BY <1>2, <2>1 DEF ReadExisting
  <2>3. /\ req'[w].start = req[w].start
        /\ req'[w].replacing = Replaces(w, req[w].start)
    BY <1>1, <2>2 DEF Request
  <2> QED BY <1>2, <2>2, <2>3 DEF ReadExisting
<1>3. CASE ResolveBilling(w)
  <2>1. ~Finish(w)
    BY <1>1 DEF Finish
  <2>2. PICK c : req' = [req EXCEPT ![w].contract = c]
    BY <1>3, <2>1 DEF ResolveBilling
  <2>3. /\ req'[w].start = req[w].start
        /\ req'[w].replacing = req[w].replacing
    BY <1>1, <2>2 DEF Request
  <2> QED BY <1>3, <2>3 DEF ResolveBilling
<1>4. ~(w = Cron /\ CronStart)
  BY <1>1 DEF CronStart
<1>5. ~ReadCustomer(w)
  BY <1>1 DEF ReadCustomer
<1>6. ~ReadPeriod(w)
  BY <1>1 DEF ReadPeriod, Finish
<1>7. ~WriteInvoice(w) /\ ~WritePaid(w) /\ ~WriteCancelled(w) /\ ~Abort(w)
  BY <1>1 DEF WriteInvoice, WritePaid, WriteCancelled, Abort, Finish
<1>8. ~StaffGenerate(w)
  BY <1>1 DEF StaffGenerate
<1>9. ~MarkPaid(w)
  BY <1>1 DEF MarkPaid
<1>10. ~CancelInvoice(w)
  BY <1>1 DEF CancelInvoice
<1> QED BY <1>2, <1>3, <1>4, <1>5, <1>6, <1>7, <1>8, <1>9, <1>10 DEF Acts, GenerateStep, StaffStep

LEMMA JobReplacesNothingStep == Inv /\ JobReplacesNothing /\ [Next]_vars => JobReplacesNothing'
<1> SUFFICES ASSUME Inv, JobReplacesNothing, [Next]_vars PROVE JobReplacesNothing'
  OBVIOUS
<1>1. CASE UNCHANGED <<invoices, pc, req>>
  BY <1>1 DEF JobReplacesNothing
<1>2. ASSUME NEW w \in Workers, Acts(w) PROVE JobReplacesNothing'
  <2>1. CASE w # Cron
    <3>1. pc'[Cron] = pc[Cron] /\ req'[Cron] = req[Cron]
      BY <1>2, <2>1, OthersRest DEF Workers
    <3> QED BY <3>1 DEF JobReplacesNothing
  <2>2. CASE w = Cron
    <3> SUFFICES ASSUME pc'[Cron] \in {"bill", "write"} PROVE ~req'[Cron].replacing
      BY DEF JobReplacesNothing
    <3>1. \/ req'[Cron].replacing = Replaces(Cron, req[Cron].start)
          \/ pc[Cron] = "bill" /\ req'[Cron].replacing = req[Cron].replacing
      BY <1>2, <2>2, ReplacingStep
    <3> QED BY <3>1 DEF JobReplacesNothing, Replaces
  <2> QED BY <2>1, <2>2
<1> QED BY <1>1, <1>2, StepsAreActs

(* A cancelled row is billed again only by a request of staff that chose to *)
(* replace it, never by the job; and it becomes paid without that only by a *)
(* payment under way, which leaves the bill as it was.                      *)
THEOREM RevivedByStaffOnly == Spec => OnlyReplacingRevives
<1> DEFINE By(w, s) ==
      /\ req[w].start = s
      /\ \/ pc[w] = "write" /\ req[w].replacing /\ invoices'[s].status = "PENDING"
         \/ /\ pc[w] = "pay"
            /\ invoices'[s] = [invoices[s] EXCEPT !.status = "PAID", !.paid = TRUE]
    Revived == \A s \in Days : (Exists(s) /\ ~Live(s) /\ Live(s)') => \E w \in Staff : By(w, s)
<1> HIDE DEF By
<1>1. InvoicingInit => Inv /\ JobReplacesNothing
  <2>1. Cron \in Workers
    BY DEF Workers
  <2> QED BY InitInv, <2>1 DEF InvoicingInit, JobReplacesNothing
<1>2. Inv /\ JobReplacesNothing /\ [Next]_vars => (Inv /\ JobReplacesNothing)'
  BY StepInv, JobReplacesNothingStep
<1>3. Inv /\ JobReplacesNothing /\ [Next]_vars => [Revived]_vars
  <2> SUFFICES ASSUME Inv, JobReplacesNothing, [Next]_vars,
                      NEW s \in Days, Exists(s), ~Live(s), Live(s)'
               PROVE  \E w \in Staff : By(w, s)
    OBVIOUS
  <2>1. invoices'[s].status # "CANCELLED" /\ invoices[s].status = "CANCELLED"
    BY DEF Live, Exists
  <2>2. PICK w \in Workers : Writes(w)
    BY <2>1, StepsAreActs, OnlyWrites
  <2>3. req[w].start = s
    BY <2>1, <2>2, WrittenRow
  <2>4. CASE WriteInvoice(w)
    <3>1. req[w].replacing /\ invoices'[s] = Snapshot(w)
      BY <2>1, <2>3, <2>4, <2>2, WrittenRow
    <3>2. w # Cron
      BY <2>4, <3>1 DEF JobReplacesNothing, WriteInvoice
    <3>3. invoices'[s].status = "PENDING" /\ pc[w] = "write"
      BY <2>4, <3>1 DEF WriteInvoice, Snapshot
    <3>4. By(w, s)
      BY <2>3, <3>1, <3>3 DEF By
    <3> QED BY <3>2, <3>4 DEF Workers
  <2>5. CASE w \in Staff /\ WritePaid(w)
    <3>0. WritePaid(w)
      BY <2>5
    <3>1. invoices'[s] = [invoices[s] EXCEPT !.status = "PAID", !.paid = TRUE]
      BY <2>2, <2>3, <3>0, WrittenRow, Zenon
    <3>2. pc[w] = "pay"
      BY <2>5 DEF WritePaid
    <3> QED BY <2>3, <2>5, <3>1, <3>2 DEF By
  <2>6. CASE w \in Staff /\ WriteCancelled(w)
    <3>1. invoices'[s] = [invoices[s] EXCEPT !.status = "CANCELLED"] /\ invoices[s] \in InvoiceRow
      BY <2>2, <2>3, <2>6, WrittenRow, RowExists DEF Inv
    <3> QED BY <2>1, <3>1 DEF InvoiceRow
  <2> QED BY <2>2, <2>4, <2>5, <2>6 DEF Writes
<1> QED BY <1>1, <1>2, <1>3, PTL DEF Spec, OnlyReplacingRevives, By
-----------------------------------------------------------------------------
(* One request of staff at a time, beside the job: what it read of the row  *)
(* it is about to write still holds, because the job writes only rows that  *)
(* did not exist.                                                           *)
ReadsHold ==
  \A w \in Staff :
    /\ pc[w] = "cancel" => Cancellable(req[w].start)
    /\ pc[w] \in {"bill", "write"} /\ req[w].replacing =>
         Exists(req[w].start) /\ invoices[req[w].start].status = "CANCELLED"
AloneInv == Inv /\ JobReplacesNothing /\ ReadsHold

\* A row the job writes was not there.
LEMMA JobWritesNewRows ==
  ASSUME Inv, JobReplacesNothing, Acts(Cron), NEW s \in Days, Exists(s)
  PROVE  invoices'[s] = invoices[s]
<1>1. CASE UNCHANGED invoices
  BY <1>1
<1>2. CASE Writes(Cron)
  <2>1. Cron \in Workers /\ Cron \notin Staff
    BY InvoicingAssumption DEF Workers
  <2>2. WriteInvoice(Cron) /\ ~req[Cron].replacing
    BY <1>2, <2>1 DEF Writes, JobReplacesNothing, WriteInvoice
  <2> QED BY <1>2, <2>1, <2>2, WrittenRow
<1>3. Cron \in Workers
  BY DEF Workers
<1> QED BY <1>1, <1>2, <1>3, OnlyWrites

LEMMA CancelReads ==
  ASSUME Inv, NEW w \in Staff, Acts(w), pc'[w] = "cancel"
  PROVE  UNCHANGED invoices /\ Cancellable(req'[w].start)
<1>1. /\ pc \in [Workers -> PcType] /\ req \in [Workers -> Request]
      /\ w \in Workers /\ w # Cron
  BY InvoicingAssumption DEF Inv, InvoicingTypeOK, PcType, Generating, Workers
<1>2. CASE CancelInvoice(w)
  <2>1. PICK s \in Days : Cancellable(s) /\ req' = [req EXCEPT ![w].start = s]
    BY <1>2 DEF CancelInvoice
  <2>2. req'[w].start = s
    BY <1>1, <2>1 DEF Request
  <2> QED BY <1>2, <2>1, <2>2 DEF CancelInvoice
<1>3. ~ReadCustomer(w)
  BY <1>1 DEF ReadCustomer
<1>4. ~ReadPeriod(w)
  BY <1>1 DEF ReadPeriod, Finish
<1>5. ~ReadExisting(w) /\ ~ResolveBilling(w)
  BY <1>1 DEF ReadExisting, ResolveBilling, Finish
<1>6. ~WriteInvoice(w) /\ ~WritePaid(w) /\ ~WriteCancelled(w) /\ ~Abort(w)
  BY <1>1 DEF WriteInvoice, WritePaid, WriteCancelled, Abort, Finish
<1>7. ~StaffGenerate(w)
  BY <1>1 DEF StaffGenerate
<1>8. ~MarkPaid(w)
  BY <1>1 DEF MarkPaid
<1> QED BY <1>1, <1>2, <1>3, <1>4, <1>5, <1>6, <1>7, <1>8 DEF Acts, GenerateStep, StaffStep

LEMMA ReadsHoldStep ==
  ASSUME \A v, w \in Staff : v = w
  PROVE  AloneInv /\ [Next]_vars => ReadsHold'
<1> SUFFICES ASSUME AloneInv, [Next]_vars, NEW w \in Staff
             PROVE  /\ pc'[w] = "cancel" => Cancellable(req[w].start)'
                    /\ pc'[w] \in {"bill", "write"} /\ req'[w].replacing =>
                         /\ Exists(req[w].start)'
                         /\ invoices'[req'[w].start].status = "CANCELLED"
  BY DEF ReadsHold
<1>0. w \in Workers /\ Cron \in Workers /\ Inv /\ JobReplacesNothing /\ ReadsHold
  BY DEF Workers, AloneInv
<1>1. CASE UNCHANGED <<invoices, pc, req>>
  BY <1>0, <1>1 DEF ReadsHold, Cancellable, Exists
<1>2. CASE Acts(Cron)
  <2>1. pc'[w] = pc[w] /\ req'[w] = req[w] /\ req[w].start \in Days
    BY <1>0, <1>2, OthersRest, InvoicingAssumption DEF Inv, InvoicingTypeOK, Request
  <2>2. Exists(req[w].start) => invoices'[req[w].start] = invoices[req[w].start]
    BY <1>0, <1>2, <2>1, JobWritesNewRows
  <2> QED BY <1>0, <2>1, <2>2 DEF ReadsHold, Cancellable, Exists
<1>3. CASE Acts(w)
  <2>1. pc'[w] = "cancel" => Cancellable(req[w].start)'
    <3> SUFFICES ASSUME pc'[w] = "cancel" PROVE Cancellable(req[w].start)'
      OBVIOUS
    <3>1. UNCHANGED invoices /\ Cancellable(req'[w].start)
      BY <1>0, <1>3, CancelReads
    <3> QED BY <3>1 DEF Cancellable, Exists
  <2>2. pc'[w] \in {"bill", "write"} /\ req'[w].replacing =>
          Exists(req[w].start)' /\ invoices'[req'[w].start].status = "CANCELLED"
    <3> SUFFICES ASSUME pc'[w] \in {"bill", "write"}, req'[w].replacing
                 PROVE  Exists(req[w].start)' /\ invoices'[req'[w].start].status = "CANCELLED"
      OBVIOUS
    <3>1. /\ UNCHANGED invoices /\ req'[w].start = req[w].start
          /\ \/ req'[w].replacing = Replaces(w, req[w].start)
             \/ pc[w] = "bill" /\ req'[w].replacing = req[w].replacing
      BY <1>0, <1>3, ReplacingStep
    <3>2. Exists(req[w].start) /\ invoices[req[w].start].status = "CANCELLED"
      BY <1>0, <3>1 DEF ReadsHold, Replaces
    <3> QED BY <3>1, <3>2 DEF Exists
  <2> QED BY <2>1, <2>2
<1> QED BY <1>1, <1>2, <1>3, StepsAreActs DEF Workers

\* No step changes what a live row bills, nor takes a paid one back.
LEMMA RowsKeepTheirPast ==
  ASSUME AloneInv, [Next]_vars, NEW s \in Days, Exists(s)
  PROVE  /\ invoices[s].status = "PAID" => invoices'[s].status = "PAID"
         /\ Live(s) => /\ invoices'[s].end = invoices[s].end
                       /\ invoices'[s].contract = invoices[s].contract
                       /\ invoices'[s].generated = invoices[s].generated
<1>0. Inv /\ JobReplacesNothing /\ ReadsHold /\ invoices[s] \in InvoiceRow
  BY RowExists DEF AloneInv, Inv
<1>1. CASE invoices'[s] = invoices[s]
  BY <1>1
<1>2. CASE invoices'[s] # invoices[s]
  <2>1. PICK w \in Workers : Acts(w) /\ Writes(w)
    BY <1>2, StepsAreActs, OnlyWrites
  <2>2. w \in Staff /\ w # Cron
    BY <1>0, <1>2, <2>1, JobWritesNewRows DEF Workers
  <2>3. req[w].start = s
    BY <1>0, <1>2, <2>1, WrittenRow
  <2>4. CASE WriteInvoice(w)
    <3>1. req[w].replacing
      BY <1>0, <1>2, <2>1, <2>3, <2>4, WrittenRow
    <3>2. invoices[s].status = "CANCELLED"
      BY <1>0, <2>2, <2>3, <2>4, <3>1 DEF ReadsHold, WriteInvoice
    <3> QED BY <3>2 DEF Live
  <2>5. CASE WritePaid(w)
    <3>1. invoices'[s] = [invoices[s] EXCEPT !.status = "PAID", !.paid = TRUE]
      BY <1>0, <2>1, <2>3, <2>5, WrittenRow
    <3> QED BY <1>0, <3>1 DEF InvoiceRow
  <2>6. CASE WriteCancelled(w)
    <3>1. invoices'[s] = [invoices[s] EXCEPT !.status = "CANCELLED"]
      BY <1>0, <2>1, <2>3, <2>6, WrittenRow
    <3>2. invoices[s].status # "PAID"
      BY <1>0, <2>2, <2>3, <2>6 DEF ReadsHold, Cancellable, WriteCancelled
    <3> QED BY <1>0, <3>1, <3>2 DEF InvoiceRow
  <2> QED BY <2>1, <2>4, <2>5, <2>6 DEF Writes
<1> QED BY <1>1, <1>2

\* What is read of an invoice still holds when it is written: its past stays.
LEMMA PastKept ==
  ASSUME \A v, w \in Staff : v = w
  PROVE  []AloneInv /\ [][Next]_vars => InvoicesKeepTheirPast
<1> DEFINE Paid ==
             \A s \in Days : (Exists(s) /\ invoices[s].status = "PAID") =>
               invoices[s].status' = "PAID"
           Frozen ==
             \A s \in Days : Live(s) =>
               /\ invoices'[s].end = invoices[s].end
               /\ invoices'[s].contract = invoices[s].contract
               /\ invoices'[s].generated = invoices[s].generated
<1>1. AloneInv /\ [Next]_vars => [Paid]_vars
  <2> SUFFICES ASSUME AloneInv, [Next]_vars, NEW s \in Days, Exists(s),
                      invoices[s].status = "PAID"
               PROVE  invoices'[s].status = "PAID"
    OBVIOUS
  <2> QED BY RowsKeepTheirPast
<1>2. AloneInv /\ [Next]_vars => [Frozen]_vars
  BY RowsKeepTheirPast DEF Live
<1>3. []AloneInv /\ [][Next]_vars => PaidStaysPaid
  BY <1>1, PTL DEF PaidStaysPaid
<1>4. []AloneInv /\ [][Next]_vars => SnapshotFrozen
  BY <1>2, PTL DEF SnapshotFrozen
<1> QED BY <1>3, <1>4 DEF InvoicesKeepTheirPast

\* While no request has been made, none holds anything it read.
LEMMA AloneStart ==
  ASSUME Inv, pc = [w \in Workers |-> "idle"], req = [w \in Workers |-> NoRequest]
  PROVE  AloneInv
<1>1. Cron \in Workers /\ Staff \subseteq Workers
  BY DEF Workers
<1> QED BY <1>1 DEF AloneInv, JobReplacesNothing, ReadsHold

LEMMA AloneStep ==
  ASSUME \A v, w \in Staff : v = w
  PROVE  AloneInv /\ [Next]_vars => AloneInv'
BY StepInv, JobReplacesNothingStep, ReadsHoldStep DEF AloneInv

(* An invoice keeps its past while staff make one request at a time beside  *)
(* the job: no step takes a paid one to another status, and none changes    *)
(* the period, the contract or the day of a live one.                       *)
THEOREM OneRequestKeepsThePast ==
  ASSUME \A v, w \in Staff : v = w
  PROVE  Spec => InvoicesKeepTheirPast
<1>1. InvoicingInit => AloneInv
  BY InitInv, AloneStart DEF InvoicingInit
<1>2. AloneInv /\ [Next]_vars => AloneInv'
  BY AloneStep
<1>3. []AloneInv /\ [][Next]_vars => InvoicesKeepTheirPast
  BY PastKept
<1> QED BY <1>1, <1>2, <1>3, PTL DEF Spec
-----------------------------------------------------------------------------
(* The month the job bills on a night: one that closed, no month closed     *)
(* after it, and a month stays the last closed one for MaxCycleDay nights.  *)
LEMMA LastClosedMonth ==
  ASSUME NEW d \in WorkDays, NEW D \in CycleDaysAllowed, NEW m \in Months
  PROVE  /\ m = LastClosedCycle(d, D) => PeriodEnd(m, D) < d
         /\ PeriodEnd(m, D) < d => m <= LastClosedCycle(d, D) /\ LastClosedCycle(d, D) \in Months
         /\ PeriodEnd(m, D) < d /\ d <= PeriodEnd(m, D) + MaxCycleDay => m = LastClosedCycle(d, D)
<1> DEFINE k == MonthOf[d]
<1>1. /\ d \in Days /\ d \in Int /\ k \in 0 .. LastMonth /\ FirstDay[k] <= d /\ d < FirstDay[k + 1]
      /\ LastMonth \in Nat /\ FirstDay[1] <= d
  <2>1. 0 \in 0 .. (LastMonth + 1) /\ 1 \in 0 .. (LastMonth + 1) /\ LastMonth + 1 \in 0 .. (LastMonth + 1)
    BY CalendarAssumption
  <2>2. /\ FirstDay[0] \in Nat /\ FirstDay[1] \in Nat /\ FirstDay[LastMonth + 1] \in Nat
        /\ FirstDay[0] < FirstDay[1]
    BY <2>1, CalendarAssumption
  <2>3. d \in Days /\ d \in Int /\ FirstDay[1] <= d
    BY <2>2 DEF WorkDays, Days
  <2> QED BY <2>3, CalendarAssumption
<1>2. /\ m \in Int /\ D \in Int /\ MaxCycleDay \in Int /\ 1 <= m /\ m <= LastMonth
      /\ 1 <= D /\ D <= MaxCycleDay
  BY CalendarAssumption DEF Months, CycleDaysAllowed
<1>3. \A a, b \in 0 .. (LastMonth + 1) :
        a <= b => FirstDay[a] \in Nat /\ FirstDay[b] \in Nat /\ FirstDay[a] <= FirstDay[b]
  BY FirstDayInOrder
<1>4. \A a \in 0 .. LastMonth : FirstDay[a] \in Nat /\ FirstDay[a + 1] >= FirstDay[a] + MaxCycleDay
  <2> SUFFICES ASSUME NEW a \in 0 .. LastMonth
               PROVE  FirstDay[a] \in Nat /\ FirstDay[a + 1] >= FirstDay[a] + MaxCycleDay
    OBVIOUS
  <2>1. a \in 0 .. (LastMonth + 1) /\ a + 1 \in 0 .. (LastMonth + 1)
    BY <1>1
  <2>2. FirstDay[a] \in Nat /\ FirstDay[a + 1] \in Nat
    BY <2>1, CalendarAssumption
  <2> QED BY <1>2, <2>2, CalendarAssumption
<1>5. k >= 1
  <2> SUFFICES ASSUME k = 0 PROVE FALSE
    BY <1>1
  <2>1. 1 \in 0 .. (LastMonth + 1) /\ k + 1 = 1
    BY <1>1
  <2>2. FirstDay[1] \in Nat /\ FirstDay[k + 1] = FirstDay[1]
    BY <2>1, CalendarAssumption
  <2> HIDE DEF k
  <2> QED BY <1>1, <2>2
<1> HIDE DEF k
<1>a. /\ m \in 0 .. LastMonth /\ m \in 0 .. (LastMonth + 1) /\ m + 1 \in 0 .. (LastMonth + 1)
      /\ k \in 0 .. (LastMonth + 1) /\ k + 1 \in 0 .. (LastMonth + 1) /\ k \in Int
      /\ k - 1 \in 0 .. LastMonth /\ k - 1 \in 0 .. (LastMonth + 1)
  BY <1>1, <1>2, <1>5
<1>b. /\ FirstDay[m] \in Nat /\ FirstDay[m + 1] \in Nat /\ FirstDay[k] \in Nat
      /\ FirstDay[k + 1] \in Nat /\ FirstDay[k - 1] \in Nat
      /\ FirstDay[m + 1] >= FirstDay[m] + MaxCycleDay
      /\ FirstDay[k] >= FirstDay[k - 1] + MaxCycleDay
  <2>1. (k - 1) + 1 = k
    BY <1>a
  <2>2. FirstDay[k - 1] \in Nat /\ FirstDay[(k - 1) + 1] >= FirstDay[k - 1] + MaxCycleDay
    BY <1>a, <1>4
  <2> QED BY <1>a, <1>3, <1>4, <2>1, <2>2
<1>6. CASE D <= 1
  <2>1. LastClosedCycle(d, D) = k - 1 /\ PeriodEnd(m, D) = FirstDay[m + 1] - 1
    BY <1>2, <1>6 DEF LastClosedCycle, CycleContaining, PeriodEnd, k
  <2>2. m = k - 1 => PeriodEnd(m, D) < d
    <3> SUFFICES ASSUME m = k - 1 PROVE PeriodEnd(m, D) < d
      OBVIOUS
    <3>1. m + 1 = k
      BY <1>a
    <3> QED BY <1>1, <1>b, <2>1, <3>1
  <2>3. PeriodEnd(m, D) < d => m <= k - 1
    <3> SUFFICES ASSUME PeriodEnd(m, D) < d, k < m + 1 PROVE FALSE
      BY <1>2, <1>a
    <3>1. FirstDay[k + 1] <= FirstDay[m + 1]
      <4>1. k + 1 <= m + 1
        BY <1>2, <1>a
      <4> QED BY <1>a, <1>3, <4>1
    <3> QED BY <1>1, <1>b, <2>1, <3>1
  <2>4. PeriodEnd(m, D) < d /\ d <= PeriodEnd(m, D) + MaxCycleDay => m = k - 1
    <3> SUFFICES ASSUME PeriodEnd(m, D) < d, d <= PeriodEnd(m, D) + MaxCycleDay, m # k - 1
                 PROVE  FALSE
      OBVIOUS
    <3>1. m + 2 <= k
      BY <1>2, <1>a, <2>3
    <3>2. m + 1 \in 0 .. LastMonth /\ m + 2 \in 0 .. (LastMonth + 1) /\ (m + 1) + 1 = m + 2
      BY <1>1, <1>2, <3>1
    <3>3. FirstDay[m + 2] <= FirstDay[k] /\ FirstDay[m + 2] \in Nat
      BY <1>a, <1>3, <3>1, <3>2
    <3>4. FirstDay[m + 2] >= FirstDay[m + 1] + MaxCycleDay
      BY <1>4, <3>2
    <3> QED BY <1>1, <1>2, <1>b, <2>1, <3>3, <3>4
  <2>5. m <= k - 1 => k - 1 \in Months
    BY <1>1, <1>2, <1>a DEF Months
  <2> QED BY <2>1, <2>2, <2>3, <2>4, <2>5
<1>7. CASE D > 1 /\ DayOfMonth(d) >= D
  <2>1. /\ LastClosedCycle(d, D) = k /\ PeriodEnd(m, D) = FirstDay[m] + D - 2
        /\ d >= FirstDay[k] + D - 1
    <3>1. LastClosedCycle(d, D) = (k + 1) - 1
      BY <1>7 DEF LastClosedCycle, CycleContaining, k
    <3>2. d - FirstDay[k] + 1 >= D
      BY <1>7 DEF DayOfMonth, k
    <3>3. PeriodEnd(m, D) = FirstDay[m] + D - 2
      BY <1>2, <1>7 DEF PeriodEnd
    <3> QED BY <1>1, <1>2, <1>a, <1>b, <3>1, <3>2, <3>3
  <2>2. m = k => PeriodEnd(m, D) < d
    BY <1>1, <1>2, <1>b, <2>1
  <2>3. PeriodEnd(m, D) < d => m <= k
    <3> SUFFICES ASSUME PeriodEnd(m, D) < d, k < m PROVE FALSE
      BY <1>2, <1>a
    <3>1. FirstDay[k + 1] <= FirstDay[m]
      <4>1. k + 1 <= m
        BY <1>2, <1>a
      <4> QED BY <1>a, <1>3, <4>1
    <3> QED BY <1>1, <1>2, <1>7, <1>b, <2>1, <3>1
  <2>4. PeriodEnd(m, D) < d /\ d <= PeriodEnd(m, D) + MaxCycleDay => m = k
    <3> SUFFICES ASSUME PeriodEnd(m, D) < d, d <= PeriodEnd(m, D) + MaxCycleDay, m # k
                 PROVE  FALSE
      OBVIOUS
    <3>1. m + 1 <= k
      BY <1>2, <1>a, <2>3
    <3>2. FirstDay[m + 1] <= FirstDay[k]
      BY <1>a, <1>3, <3>1
    <3> QED BY <1>1, <1>2, <1>b, <2>1, <3>2
  <2>5. m <= k => k \in Months
    BY <1>1, <1>2, <1>a DEF Months
  <2> QED BY <2>1, <2>2, <2>3, <2>4, <2>5
<1>8. CASE D > 1 /\ DayOfMonth(d) < D
  <2>1. /\ LastClosedCycle(d, D) = k - 1 /\ PeriodEnd(m, D) = FirstDay[m] + D - 2
        /\ d <= FirstDay[k] + D - 2
    <3>1. d - FirstDay[k] + 1 < D
      BY <1>8 DEF DayOfMonth, k
    <3>2. ~(DayOfMonth(d) >= D)
      BY <1>1, <1>2, <1>8, <1>b DEF DayOfMonth, k
    <3>3. LastClosedCycle(d, D) = k - 1
      BY <3>2 DEF LastClosedCycle, CycleContaining, k
    <3>4. PeriodEnd(m, D) = FirstDay[m] + D - 2
      BY <1>2, <1>8 DEF PeriodEnd
    <3> QED BY <1>1, <1>2, <1>b, <3>1, <3>3, <3>4
  <2>2. m = k - 1 => PeriodEnd(m, D) < d
    <3> SUFFICES ASSUME m = k - 1 PROVE PeriodEnd(m, D) < d
      OBVIOUS
    <3>1. FirstDay[m] = FirstDay[k - 1]
      OBVIOUS
    <3> QED BY <1>1, <1>2, <1>b, <2>1, <3>1
  <2>3. PeriodEnd(m, D) < d => m <= k - 1
    <3> SUFFICES ASSUME PeriodEnd(m, D) < d, k <= m PROVE FALSE
      BY <1>2, <1>a
    <3>1. FirstDay[k] <= FirstDay[m]
      BY <1>a, <1>3
    <3> QED BY <1>1, <1>2, <1>b, <2>1, <3>1
  <2>4. PeriodEnd(m, D) < d /\ d <= PeriodEnd(m, D) + MaxCycleDay => m = k - 1
    <3> SUFFICES ASSUME PeriodEnd(m, D) < d, d <= PeriodEnd(m, D) + MaxCycleDay, m # k - 1
                 PROVE  FALSE
      OBVIOUS
    <3>1. m + 1 <= k - 1
      BY <1>2, <1>a, <2>3
    <3>2. FirstDay[m + 1] <= FirstDay[k - 1]
      BY <1>a, <1>3, <3>1
    <3> QED BY <1>1, <1>2, <1>b, <2>1, <3>2
  <2>5. m <= k - 1 => k - 1 \in Months
    BY <1>1, <1>2, <1>a DEF Months
  <2> QED BY <2>1, <2>2, <2>3, <2>4, <2>5
<1>9. DayOfMonth(d) \in Int
  BY <1>1, <1>b DEF DayOfMonth, k
<1> QED BY <1>2, <1>6, <1>7, <1>8, <1>9
-----------------------------------------------------------------------------
(* The nightly job catches up: while neither the cycle day nor the          *)
(* contracts change, a run that completes leaves the last closed month      *)
(* billed, and a closed month that is not billed yet closed no more nights  *)
(* ago than the job has missed in a row.                                    *)
LastClosed == LastClosedCycle(today, cycleDay)
Billed(m) ==
  \/ Covering(PeriodStart(m, cycleDay), PeriodEnd(m, cycleDay)) = {}
  \/ Exists(PeriodStart(m, cycleDay))
JobOnTrack ==
  /\ pc[Cron] # "idle" => cronRun = "runs" /\ req[Cron].month = LastClosed
  /\ pc[Cron] \in HasPeriod => /\ req[Cron].start = PeriodStart(req[Cron].month, cycleDay)
                              /\ req[Cron].end = PeriodEnd(req[Cron].month, cycleDay)
  /\ cronRun = "done" /\ LastClosed \in Months => Billed(LastClosed)
NightsCounted ==
  /\ missed <= MaxMissed
  /\ cronRun = "failed" => missed < MaxMissed
  /\ \A m \in Months :
       LET e == PeriodEnd(m, cycleDay)
       IN FirstToday <= e /\ e < today /\ ~Billed(m) => today - e - 1 <= missed
CatchUpInv == FixedInv /\ JobOnTrack /\ NightsCounted

LEMMA NextCases ==
  ASSUME cycleDay' = cycleDay, "contracts" \notin StaffMay, [Next]_vars
  PROVE  /\ contracts' = contracts /\ cycleDay' = cycleDay
         /\ \/ /\ UNCHANGED today
               /\ \E w \in Workers : Acts(w)
            \/ NextDay
            \/ UNCHANGED vars
<1>1. CASE CronStart /\ UNCHANGED <<contractVars, today>>
  BY <1>1 DEF Acts, Workers, contractVars, CronStart
<1>2. ASSUME NEW w \in Workers, GenerateStep(w) \/ Abort(w), UNCHANGED <<contractVars, today>>
      PROVE  cycleDay' = cycleDay /\ contracts' = contracts /\ Acts(w) /\ UNCHANGED today
  BY <1>2 DEF Acts, contractVars, GenerateStep, ReadCustomer, ReadPeriod, ReadExisting,
              ResolveBilling, WriteInvoice, Abort
<1>3. ASSUME NEW w \in Staff, StaffStep(w), UNCHANGED <<contractVars, today>>
      PROVE  /\ cycleDay' = cycleDay /\ contracts' = contracts /\ Acts(w) /\ UNCHANGED today
             /\ w \in Workers
  BY <1>3 DEF Acts, Workers, contractVars, StaffStep, StaffGenerate, MarkPaid, WritePaid,
              CancelInvoice, WriteCancelled
<1>4. CASE NextDay /\ UNCHANGED contractVars
  BY <1>4 DEF NextDay, contractVars
<1>5. CASE UNCHANGED vars
  BY <1>5 DEF vars, contractVars, invoiceVars
<1>6. ~SetCycleDay
  BY DEF SetCycleDay
<1> QED BY <1>1, <1>2, <1>3, <1>4, <1>5, <1>6 DEF Next

\* No step removes a row.
LEMMA RowsStay ==
  ASSUME Inv, [Next]_vars, NEW s \in Days, Exists(s)
  PROVE  Exists(s)'
<1>1. invoices[s] \in InvoiceRow
  BY RowExists DEF Inv
<1>2. CASE invoices'[s] = invoices[s]
  BY <1>2 DEF Exists
<1>3. CASE invoices'[s] # invoices[s]
  <2>1. PICK w \in Workers : Writes(w)
    BY <1>3, StepsAreActs, OnlyWrites
  <2>2. req[w].start = s
    BY <1>3, <2>1, WrittenRow
  <2>3. \/ invoices'[s] = Snapshot(w)
        \/ invoices'[s] = [invoices[s] EXCEPT !.status = "PAID", !.paid = TRUE]
        \/ invoices'[s] = [invoices[s] EXCEPT !.status = "CANCELLED"]
    BY <1>3, <2>1, <2>2, WrittenRow DEF Writes
  <2>4. invoices'[s].status \in InvoiceStatus
    <3>1. Snapshot(w).status = "PENDING"
      BY DEF Snapshot
    <3>2. [invoices[s] EXCEPT !.status = "PAID", !.paid = TRUE].status = "PAID"
      BY <1>1 DEF InvoiceRow
    <3>3. [invoices[s] EXCEPT !.status = "CANCELLED"].status = "CANCELLED"
      BY <1>1 DEF InvoiceRow
    <3> QED BY <2>3, <3>1, <3>2, <3>3 DEF InvoiceStatus
  <2>5. NoInvoice.status \notin InvoiceStatus
    BY DEF NoInvoice, InvoiceStatus
  <2> QED BY <2>4, <2>5 DEF Exists
<1> QED BY <1>2, <1>3

LEMMA BilledStays ==
  ASSUME Inv, [Next]_vars, contracts' = contracts, cycleDay' = cycleDay,
         NEW m \in Months, Billed(m)
  PROVE  Billed(m)'
<1>1. PeriodStart(m, cycleDay) \in Days
  BY PeriodInCalendar DEF Inv, InvoicingTypeOK
<1>2. CASE Exists(PeriodStart(m, cycleDay))
  BY <1>1, <1>2, RowsStay DEF Billed, Exists
<1>3. CASE Covering(PeriodStart(m, cycleDay), PeriodEnd(m, cycleDay)) = {}
  BY <1>3 DEF Billed, Covering
<1> QED BY <1>2, <1>3 DEF Billed

\* A step of another operation is none of the job's.
LEMMA JobRests ==
  ASSUME Inv, NEW w \in Workers, Acts(w)
  PROVE  /\ missed' = missed
         /\ w # Cron => pc'[Cron] = pc[Cron] /\ req'[Cron] = req[Cron] /\ cronRun' = cronRun
<1>1. missed' = missed
  BY DEF Acts, CronStart, GenerateStep, ReadCustomer, ReadPeriod, ReadExisting, ResolveBilling,
         WriteInvoice, Abort, StaffStep, StaffGenerate, MarkPaid, WritePaid, CancelInvoice,
         WriteCancelled, NotByCron
<1>2. w # Cron => cronRun' = cronRun
  BY DEF Acts, CronStart, GenerateStep, ReadCustomer, ReadPeriod, ReadExisting, ResolveBilling,
         WriteInvoice, Abort, StaffStep, StaffGenerate, MarkPaid, WritePaid, CancelInvoice,
         WriteCancelled, NotByCron, Finish
<1>3. w # Cron => pc'[Cron] = pc[Cron] /\ req'[Cron] = req[Cron]
  BY OthersRest DEF Workers
<1> QED BY <1>1, <1>2, <1>3

\* What the job's own steps leave on a night.
LEMMA JobStep ==
  ASSUME CatchUpInv, [Next]_vars,
         contracts' = contracts, cycleDay' = cycleDay, today' = today, Acts(Cron)
  PROVE  JobOnTrack' /\ (cronRun' = "failed" => missed < MaxMissed)
<1> DEFINE c == Cron
           n == req[c].month
<1>0. /\ Inv /\ RowsOnCycle /\ ReadsOnCycle /\ JobOnTrack /\ c \in Workers /\ c \notin Staff
      /\ cycleDay \in CycleDaysAllowed /\ today \in WorkDays
      /\ pc \in [Workers -> PcType] /\ req \in [Workers -> Request]
      /\ LastClosed' = LastClosed
  BY InvoicingAssumption
     DEF CatchUpInv, FixedInv, Inv, InvoicingTypeOK, ContractsTypeOK, PcType, Generating, Workers, LastClosed
<1>1. ASSUME Finish(c), LastClosed \in Months => Billed(LastClosed)'
      PROVE  JobOnTrack' /\ cronRun' # "failed"
  <2>1. pc'[c] = "idle" /\ "idle" \notin HasPeriod /\ cronRun' = "done"
    BY <1>0, <1>1 DEF Finish, HasPeriod
  <2> QED BY <1>0, <1>1, <2>1 DEF JobOnTrack, LastClosed
<1>2. ASSUME NEW p, NEW r, pc' = [pc EXCEPT ![c] = p], req' = [req EXCEPT ![c] = r],
             cronRun' = "runs", r.month = LastClosed,
             p \in HasPeriod => r.start = PeriodStart(r.month, cycleDay)
                                /\ r.end = PeriodEnd(r.month, cycleDay)
      PROVE  JobOnTrack' /\ cronRun' # "failed"
  <2>1. pc'[c] = p /\ req'[c] = r
    BY <1>0, <1>2
  <2> QED BY <1>0, <1>2, <2>1 DEF JobOnTrack, PeriodStart, PeriodEnd
<1>3. CASE CronStart
  <2> DEFINE r == [NoRequest EXCEPT !.month = LastClosed]
  <2>1. r.month = LastClosed /\ "customer" \notin HasPeriod
    BY DEF NoRequest, HasPeriod
  <2>2. pc' = [pc EXCEPT ![c] = "customer"] /\ req' = [req EXCEPT ![c] = r] /\ cronRun' = "runs"
    BY <1>3 DEF CronStart, LastClosed
  <2> HIDE DEF r, c
  <2> QED BY <1>2, <2>1, <2>2
<1>4. ASSUME GenerateStep(c)
      PROVE  /\ cronRun = "runs" /\ n = LastClosed /\ n \in Months
             /\ req[c] \in Request
             /\ pc[c] \in HasPeriod => /\ req[c].start = PeriodStart(n, cycleDay)
                                       /\ req[c].end = PeriodEnd(n, cycleDay)
             /\ PeriodEnd(n, cycleDay) < today
  <2>1. pc[c] # "idle" /\ pc[c] \in Generating
    BY <1>4 DEF GenerateStep, ReadCustomer, ReadPeriod, ReadExisting, ResolveBilling,
                WriteInvoice, Generating
  <2>2. cronRun = "runs" /\ n = LastClosed
    BY <1>0, <2>1 DEF JobOnTrack
  <2>3. n \in Months /\ req[c] \in Request
    BY <1>0, <2>1 DEF Inv, RequestsOK
  <2>4. PeriodEnd(n, cycleDay) < today
    BY <1>0, <2>2, <2>3, LastClosedMonth DEF LastClosed
  <2> QED BY <1>0, <2>2, <2>3, <2>4 DEF JobOnTrack
<1>5. CASE ReadCustomer(c)
  <2> DEFINE r == [req[c] EXCEPT !.day = cycleDay]
  <2>1. /\ pc' = [pc EXCEPT ![c] = "period"] /\ req' = [req EXCEPT ![c] = r]
        /\ cronRun' = "runs" /\ r.month = LastClosed /\ "period" \notin HasPeriod
    BY <1>0, <1>4, <1>5 DEF ReadCustomer, GenerateStep, NotByCron, Request, HasPeriod
  <2> HIDE DEF r, c
  <2> QED BY <1>2, <2>1
<1>6. CASE ReadPeriod(c)
  <2>1. req[c].day = cycleDay
    BY <1>0, <1>6 DEF ReadsOnCycle, ReadPeriod
  <2>2. PICK s \in StartsFor(n, cycleDay) :
          /\ pc' = [pc EXCEPT ![c] = "existing"] /\ UNCHANGED cronRun
          /\ req' = [req EXCEPT ![c].start = s, ![c].end = PeriodEnd(n, cycleDay)]
    BY <1>4, <1>6, <2>1 DEF ReadPeriod, Closed, GenerateStep
  <2>3. s = PeriodStart(n, cycleDay)
    BY <1>0, <1>4, <1>6, <2>2, StitchIsStart DEF GenerateStep
  <2> DEFINE r == [req[c] EXCEPT !.start = s, !.end = PeriodEnd(n, cycleDay)]
  <2>4. /\ req' = [req EXCEPT ![c] = r] /\ r.month = n
        /\ r.start = s /\ r.end = PeriodEnd(n, cycleDay)
    BY <1>0, <1>4, <1>6, <2>2 DEF Request, GenerateStep
  <2>5. n = LastClosed /\ cronRun = "runs"
    BY <1>4, <1>6 DEF GenerateStep
  <2> HIDE DEF r, c, n
  <2> QED BY <1>2, <2>2, <2>3, <2>4, <2>5
<1>7. CASE ReadExisting(c)
  <2> DEFINE s == req[c].start
  <2>1. s = PeriodStart(n, cycleDay) /\ n = LastClosed /\ cronRun = "runs"
    BY <1>4, <1>7 DEF ReadExisting, HasPeriod, GenerateStep
  <2>2. CASE Finish(c)
    <3>1. Exists(s)
      <4>1. pc'[c] = "idle"
        BY <1>0, <2>2 DEF Finish
      <4>2. pc' # [pc EXCEPT ![c] = "bill"]
        BY <1>0, <4>1
      <4> QED BY <1>7, <4>2 DEF ReadExisting
    <3>2. UNCHANGED invoices
      BY <1>7 DEF ReadExisting
    <3> QED BY <1>1, <2>1, <2>2, <3>1, <3>2 DEF Billed, Exists, LastClosed
  <2>3. CASE ~Finish(c)
    <3> DEFINE r == [req[c] EXCEPT !.replacing = Replaces(c, s)]
    <3>1. /\ pc' = [pc EXCEPT ![c] = "bill"] /\ UNCHANGED cronRun
          /\ req' = [req EXCEPT ![c].replacing = Replaces(c, s)]
      BY <1>7, <2>3 DEF ReadExisting
    <3>2. /\ req' = [req EXCEPT ![c] = r] /\ r.month = n
          /\ r.start = req[c].start /\ r.end = req[c].end
      BY <1>0, <1>4, <1>7, <3>1 DEF Request, GenerateStep
    <3>3. req[c].end = PeriodEnd(n, cycleDay)
      BY <1>4, <1>7 DEF ReadExisting, HasPeriod, GenerateStep
    <3> HIDE DEF r, c, n
    <3> QED BY <1>2, <2>1, <3>1, <3>2, <3>3 DEF n
  <2> QED BY <2>2, <2>3
<1>8. CASE ResolveBilling(c)
  <2>1. /\ req[c].start = PeriodStart(n, cycleDay) /\ req[c].end = PeriodEnd(n, cycleDay)
        /\ n = LastClosed /\ cronRun = "runs"
    BY <1>4, <1>8 DEF ResolveBilling, HasPeriod, GenerateStep
  <2>2. CASE Finish(c)
    <3>1. Covering(req[c].start, req[c].end) = {}
      <4>1. pc'[c] = "idle"
        BY <1>0, <2>2 DEF Finish
      <4>2. pc' # [pc EXCEPT ![c] = "write"]
        BY <1>0, <4>1
      <4> QED BY <1>8, <4>2 DEF ResolveBilling
    <3> QED BY <1>1, <2>1, <2>2, <3>1 DEF Billed, Covering, LastClosed
  <2>3. CASE ~Finish(c)
    <3>1. PICK k : /\ pc' = [pc EXCEPT ![c] = "write"] /\ UNCHANGED cronRun
                   /\ req' = [req EXCEPT ![c].contract = k]
      BY <1>8, <2>3 DEF ResolveBilling
    <3> DEFINE r == [req[c] EXCEPT !.contract = k]
    <3>2. /\ req' = [req EXCEPT ![c] = r] /\ r.month = n
          /\ r.start = req[c].start /\ r.end = req[c].end
      BY <1>0, <1>4, <1>8, <3>1 DEF Request, GenerateStep
    <3> HIDE DEF r, c, n
    <3> QED BY <1>2, <2>1, <3>1, <3>2 DEF n
  <2> QED BY <2>2, <2>3
<1>9. CASE WriteInvoice(c)
  <2>1. /\ req[c].start = PeriodStart(n, cycleDay) /\ n = LastClosed /\ Finish(c)
        /\ n \in Months /\ req[c].start \in Days
    BY <1>4, <1>9, <1>0, WrittenRow DEF WriteInvoice, HasPeriod, GenerateStep, Writes
  <2>2. invoices'[req[c].start] =
          (IF req[c].replacing \/ ~Exists(req[c].start) THEN Snapshot(c) ELSE invoices[req[c].start])
    BY <1>0, <1>9, WrittenRow DEF Writes
  <2>3. Snapshot(c) # NoInvoice
    <3>1. Snapshot(c).status # NoInvoice.status
      BY DEF Snapshot, NoInvoice
    <3> QED BY <3>1
  <2>4. invoices'[PeriodStart(LastClosed, cycleDay)] # NoInvoice
    BY <2>1, <2>2, <2>3 DEF Exists
  <2> QED BY <1>0, <1>1, <2>1, <2>4 DEF Billed, Exists, PeriodStart
<1>10. CASE Abort(c)
  <2>1. pc'[c] = "idle" /\ "idle" \notin HasPeriod /\ cronRun' = "failed" /\ missed < MaxMissed
    BY <1>0, <1>10 DEF Abort, HasPeriod
  <2> QED BY <2>1 DEF JobOnTrack
<1> QED BY <1>0, <1>3, <1>5, <1>6, <1>7, <1>8, <1>9, <1>10 DEF Acts, GenerateStep

\* The night after: a month that closed before and is not billed would have
\* been the job's own month, had the job completed.
LEMMA NextNight ==
  ASSUME CatchUpInv, MaxMissed < MaxCycleDay,
         [Next]_vars, contracts' = contracts, cycleDay' = cycleDay, NextDay
  PROVE  JobOnTrack' /\ NightsCounted'
<1>0. /\ Inv /\ JobOnTrack /\ NightsCounted /\ cycleDay \in CycleDaysAllowed
      /\ today \in WorkDays /\ missed \in Nat /\ MaxMissed \in Nat
      /\ cronRun \in CronType /\ MaxCycleDay \in Nat
  BY InvoicingAssumption, BoundsAreNat
     DEF CatchUpInv, FixedInv, Inv, InvoicingTypeOK, ContractsTypeOK, CronType
<1>1. /\ today \in Int /\ today' = today + 1 /\ cronRun' = "waits" /\ cronRun # "runs"
      /\ UNCHANGED <<invoices, pc, req>>
      /\ missed' = (IF cronRun = "done" \/ NothingToBill THEN 0 ELSE missed + 1)
      /\ cronRun = "waits" /\ ~NothingToBill => missed < MaxMissed
  BY <1>0, CalendarInts DEF NextDay
<1>2. JobOnTrack'
  <2>1. pc[Cron] = "idle" /\ "idle" \notin HasPeriod
    BY <1>0, <1>1 DEF JobOnTrack, HasPeriod
  <2> QED BY <1>1, <2>1 DEF JobOnTrack
<1>3. missed' <= MaxMissed
  BY <1>0, <1>1 DEF NightsCounted, CronType
<1>4. ASSUME NEW m \in Months, FirstToday <= PeriodEnd(m, cycleDay),
             PeriodEnd(m, cycleDay) < today + 1, ~Billed(m)
      PROVE  (today + 1) - PeriodEnd(m, cycleDay) - 1 <= missed'
  <2>1. PeriodEnd(m, cycleDay) \in Int
    BY <1>0, PeriodInCalendar, DayIsInt
  <2>2. CASE PeriodEnd(m, cycleDay) = today
    BY <1>0, <1>1, <2>1, <2>2
  <2>3. CASE PeriodEnd(m, cycleDay) < today
    <3>1. today - PeriodEnd(m, cycleDay) - 1 <= missed /\ missed <= MaxMissed
      BY <1>0, <1>4, <2>3 DEF NightsCounted
    <3>2. m = LastClosed
      <4>1. today <= PeriodEnd(m, cycleDay) + MaxCycleDay
        BY <1>0, <1>1, <2>1, <3>1
      <4> QED BY <1>0, <2>3, <4>1, LastClosedMonth DEF LastClosed
    <3>3. cronRun # "done"
      BY <1>0, <1>4, <3>2 DEF JobOnTrack
    <3>4. ~NothingToBill
      <4>1. Len(contracts) # 0
        <5> SUFFICES ASSUME Len(contracts) = 0 PROVE FALSE
          OBVIOUS
        <5>1. Covering(PeriodStart(m, cycleDay), PeriodEnd(m, cycleDay)) = {}
          BY DEF Covering
        <5> QED BY <1>4, <5>1 DEF Billed
      <4> QED BY <3>2, <4>1 DEF NothingToBill, LastClosed
    <3>5. missed' = missed + 1
      BY <1>1, <3>3, <3>4
    <3> QED BY <1>0, <1>1, <2>1, <3>1, <3>5
  <2> QED BY <1>1, <1>4, <2>1, <2>2, <2>3
<1>5. NightsCounted'
  <2> SUFFICES ASSUME NEW m \in Months, FirstToday <= PeriodEnd(m, cycleDay),
                      PeriodEnd(m, cycleDay) < today + 1, ~Billed(m)'
               PROVE  (today + 1) - PeriodEnd(m, cycleDay) - 1 <= missed'
    BY <1>1, <1>3 DEF NightsCounted, PeriodEnd
  <2>1. ~Billed(m)
    BY <1>0, BilledStays
  <2> QED BY <1>4, <2>1
<1> QED BY <1>2, <1>5

LEMMA CatchUpStep ==
  ASSUME CatchUpInv, [Next]_vars, cycleDay' = cycleDay,
         "contracts" \notin StaffMay, MaxMissed < MaxCycleDay
  PROVE  CatchUpInv'
<1>0. Inv /\ FixedInv /\ JobOnTrack /\ NightsCounted
  BY DEF CatchUpInv, FixedInv
<1>1. FixedInv'
  BY <1>0, StepInv, FixedStep DEF FixedInv
<1>2. contracts' = contracts /\ cycleDay' = cycleDay
  BY NextCases
<1>3. ASSUME UNCHANGED <<today, missed>>, cronRun' = "failed" => missed < MaxMissed
      PROVE  NightsCounted'
  <2>1. \A m \in Months : ~Billed(m)' => ~Billed(m)
    BY <1>0, <1>2, BilledStays
  <2> QED BY <1>0, <1>2, <1>3, <2>1 DEF NightsCounted, PeriodEnd
<1>4. ASSUME UNCHANGED <<today, cronRun>>, pc'[Cron] = pc[Cron], req'[Cron] = req[Cron]
      PROVE  JobOnTrack'
  <2>1. LastClosed' = LastClosed
    BY <1>2, <1>4 DEF LastClosed
  <2>2. LastClosed \in Months /\ Billed(LastClosed) => Billed(LastClosed)'
    <3> SUFFICES ASSUME LastClosed \in Months, Billed(LastClosed) PROVE Billed(LastClosed)'
      OBVIOUS
    <3>1. PICK n \in Months : n = LastClosed
      OBVIOUS
    <3>2. Billed(n)'
      BY <1>0, <1>2, <3>1, BilledStays
    <3> QED BY <2>1, <3>1, <3>2 DEF Billed, PeriodStart, PeriodEnd
  <2> QED BY <1>0, <1>2, <1>4, <2>1, <2>2 DEF JobOnTrack, PeriodStart, PeriodEnd
<1>5. CASE UNCHANGED today /\ \E w \in Workers : Acts(w)
  <2>1. PICK w \in Workers : Acts(w)
    BY <1>5
  <2>2. missed' = missed
    BY <1>0, <2>1, JobRests
  <2>3. CASE w = Cron
    <3>1. JobOnTrack' /\ (cronRun' = "failed" => missed < MaxMissed)
      BY <1>2, <1>5, <2>1, <2>3, JobStep
    <3> QED BY <1>1, <1>3, <1>5, <2>2, <3>1 DEF CatchUpInv
  <2>4. CASE w # Cron
    <3>1. pc'[Cron] = pc[Cron] /\ req'[Cron] = req[Cron] /\ cronRun' = cronRun
      BY <1>0, <2>1, <2>4, JobRests
    <3> QED BY <1>0, <1>1, <1>3, <1>4, <1>5, <2>2, <3>1 DEF CatchUpInv, NightsCounted
  <2> QED BY <2>3, <2>4
<1>6. CASE NextDay
  BY <1>1, <1>2, <1>6, NextNight DEF CatchUpInv
<1>7. CASE UNCHANGED vars
  <2>1. UNCHANGED <<today, missed, cronRun, pc, req>>
    BY <1>7 DEF vars, invoiceVars
  <2> QED BY <1>0, <1>1, <1>3, <1>4, <2>1 DEF CatchUpInv, NightsCounted
<1> QED BY <1>5, <1>6, <1>7, NextCases

LEMMA CatchUpStart == InvoicingInit => CatchUpInv
<1> SUFFICES ASSUME InvoicingInit PROVE JobOnTrack /\ NightsCounted
  BY FixedStart DEF CatchUpInv
<1>1. pc[Cron] = "idle" /\ "idle" \notin HasPeriod /\ cronRun = "waits"
  BY DEF InvoicingInit, HasPeriod, Workers
<1>2. JobOnTrack
  BY <1>1 DEF JobOnTrack
<1>3. missed <= MaxMissed /\ cronRun # "failed"
  BY InvoicingAssumption DEF InvoicingInit
<1>4. ASSUME NEW m \in Months
      PROVE  ~(FirstToday <= PeriodEnd(m, cycleDay) /\ PeriodEnd(m, cycleDay) < today)
  <2>1. PeriodEnd(m, cycleDay) \in Int /\ FirstToday \in Int
    <3>1. cycleDay \in CycleDaysAllowed
      BY InitInv DEF Inv, InvoicingTypeOK
    <3>2. FirstToday \in Int
      BY ContractsAssumption, CalendarInts
    <3> QED BY <3>1, <3>2, PeriodInCalendar, DayIsInt
  <2> QED BY <2>1 DEF InvoicingInit
<1> QED BY <1>2, <1>3, <1>4 DEF NightsCounted

LEMMA CaughtUp == CatchUpInv => ClosedCyclesInvoiced
<1> SUFFICES ASSUME CatchUpInv, NEW m \in Months,
                    FirstToday <= PeriodEnd(m, cycleDay),
                    PeriodEnd(m, cycleDay) + MaxMissed + 1 < today,
                    Covering(PeriodStart(m, cycleDay), PeriodEnd(m, cycleDay)) # {}
             PROVE  \E s \in Days : Exists(s) /\ Competencia(invoices[s].end) = m
  BY DEF ClosedCyclesInvoiced
<1>0. /\ Inv /\ RowsOnCycle /\ NightsCounted /\ cycleDay \in CycleDaysAllowed
      /\ today \in WorkDays /\ missed \in Nat /\ MaxMissed \in Nat
  BY InvoicingAssumption DEF CatchUpInv, FixedInv, Inv, InvoicingTypeOK, ContractsTypeOK
<1>1. /\ PeriodEnd(m, cycleDay) \in Int /\ today \in Int
      /\ PeriodStart(m, cycleDay) \in Days
  BY <1>0, PeriodInCalendar, DayIsInt, CalendarInts
<1>2. Billed(m)
  BY <1>0, <1>1 DEF NightsCounted
<1>3. Exists(PeriodStart(m, cycleDay))
  BY <1>2 DEF Billed
<1>4. PICK n \in Months : /\ PeriodStart(m, cycleDay) = PeriodStart(n, cycleDay)
                          /\ invoices[PeriodStart(m, cycleDay)].end = PeriodEnd(n, cycleDay)
  BY <1>0, <1>1, <1>3 DEF RowsOnCycle
<1>5. ASSUME NEW a \in Months, NEW b \in Months, a < b
      PROVE  PeriodStart(a, cycleDay) # PeriodStart(b, cycleDay)
  <2>1. PeriodEnd(a, cycleDay) < PeriodStart(b, cycleDay)
    BY <1>0, <1>5, PeriodsOrdered
  <2>2. /\ PeriodStart(a, cycleDay) <= PeriodEnd(a, cycleDay)
        /\ PeriodStart(a, cycleDay) \in Int /\ PeriodEnd(a, cycleDay) \in Int
        /\ PeriodStart(b, cycleDay) \in Int
    BY <1>0, PeriodInCalendar, DayIsInt
  <2> QED BY <2>1, <2>2
<1>6. n = m
  BY <1>4, <1>5 DEF Months
<1>7. Competencia(PeriodEnd(m, cycleDay)) = m
  BY <1>0, CompetenciaOfPeriod
<1> QED BY <1>1, <1>3, <1>4, <1>6, <1>7

(* As soon as a period closes the nightly job bills it: while the cycle day *)
(* and the contracts stay as they are and the job never misses a whole      *)
(* month of nights in a row, a covered period that closed has an invoice    *)
(* MaxMissed nights after the first one, whatever staff do meanwhile.       *)
THEOREM MissedNightsAreCaughtUp ==
  ASSUME "setCycleDay" \notin StaffMay, "contracts" \notin StaffMay, MaxMissed < MaxCycleDay
  PROVE  Spec => []ClosedCyclesInvoiced
<1>1. CatchUpInv /\ [Next]_vars => CatchUpInv'
  <2> SUFFICES ASSUME CatchUpInv, [Next]_vars PROVE CatchUpInv'
    OBVIOUS
  <2>1. cycleDay' = cycleDay
    BY CycleDayStays DEF SetCycleDay
  <2> QED BY <2>1, CatchUpStep
<1> QED BY <1>1, CatchUpStart, CaughtUp, PTL DEF Spec
-----------------------------------------------------------------------------
(* A customer whose cycle day changes.  More of the calendar first: months  *)
(* follow each other as days do, the month the job bills is this one or the *)
(* one before, and the one before has closed on any cycle day.              *)
LEMMA MonthsInOrder ==
  ASSUME NEW c \in Days, NEW d \in Days, c <= d
  PROVE  MonthOf[c] <= MonthOf[d]
<1>1. PICK j : j = MonthOf[c]
  OBVIOUS
<1>2. PICK k : k = MonthOf[d]
  OBVIOUS
<1>3. /\ j \in 0 .. LastMonth /\ FirstDay[j] <= c /\ c < FirstDay[j + 1]
      /\ k \in 0 .. LastMonth /\ FirstDay[k] <= d /\ d < FirstDay[k + 1]
  BY <1>1, <1>2, CalendarAssumption
<1>4. c \in Int /\ d \in Int /\ LastMonth \in Nat /\ j \in Int /\ k \in Int
  BY <1>3, DayIsInt, BoundsAreNat
<1>5. ~(k < j)
  <2> SUFFICES ASSUME k < j PROVE FALSE
    OBVIOUS
  <2>1. k + 1 \in 0 .. (LastMonth + 1) /\ j \in 0 .. (LastMonth + 1) /\ k + 1 <= j
    BY <1>3, <1>4
  <2>2. FirstDay[k + 1] \in Nat /\ FirstDay[j] \in Nat /\ FirstDay[k + 1] <= FirstDay[j]
    BY <2>1, FirstDayInOrder
  <2> QED BY <2>2, <1>3, <1>4
<1> QED BY <1>1, <1>2, <1>4, <1>5

LEMMA NextDayOfMonth ==
  ASSUME NEW d \in WorkDays, d + 1 \in WorkDays
  PROVE  \/ MonthOf[d + 1] = MonthOf[d] /\ DayOfMonth(d + 1) = DayOfMonth(d) + 1
         \/ /\ MonthOf[d + 1] = MonthOf[d] + 1 /\ DayOfMonth(d + 1) = 1
            /\ MaxCycleDay <= DayOfMonth(d)
<1>1. PICK k : k = MonthOf[d]
  OBVIOUS
<1>2. /\ k \in 0 .. LastMonth /\ FirstDay[k] <= d /\ d < FirstDay[k + 1]
      /\ d \in Days /\ d + 1 \in Days /\ d \in Int
  BY <1>1, CalendarAssumption, CalendarInts
<1>3. LastMonth \in Nat /\ MaxCycleDay \in Nat /\ k \in Int
  BY <1>2, BoundsAreNat
<1>4. k \in 0 .. (LastMonth + 1) /\ k + 1 \in 0 .. (LastMonth + 1) /\ LastMonth + 1 \in 0 .. (LastMonth + 1)
  BY <1>2, <1>3
<1>5. /\ FirstDay[k] \in Nat /\ FirstDay[k + 1] \in Nat /\ FirstDay[LastMonth + 1] \in Nat
      /\ FirstDay[k + 1] - FirstDay[k] >= MaxCycleDay
  BY <1>2, <1>4, CalendarAssumption
<1>6. CASE d + 1 < FirstDay[k + 1]
  <2>1. MonthOf[d + 1] = k
    <3>1. FirstDay[k] <= d + 1
      BY <1>2, <1>5
    <3> QED BY <3>1, <1>2, <1>6, MonthUnique
  <2>2. DayOfMonth(d + 1) = DayOfMonth(d) + 1
    BY <2>1, <1>1, <1>2, <1>5 DEF DayOfMonth
  <2> QED BY <2>1, <2>2, <1>1
<1>7. CASE ~(d + 1 < FirstDay[k + 1])
  <2>1. d + 1 = FirstDay[k + 1]
    BY <1>2, <1>5, <1>7
  <2>2. k + 1 \in 0 .. LastMonth
    <3>1. k # LastMonth
      <4> SUFFICES ASSUME k = LastMonth PROVE FALSE
        OBVIOUS
      <4>1. d + 1 <= FirstDay[LastMonth + 1] - 1
        <5>1. FirstDay[1] \in Nat
          BY CalendarAssumption
        <5> QED BY <5>1, <1>5 DEF WorkDays
      <4> QED BY <4>1, <2>1, <1>5
    <3> QED BY <3>1, <1>2, <1>3
  <2>3. FirstDay[k + 1] < FirstDay[(k + 1) + 1]
    <3>1. k + 1 < (k + 1) + 1 /\ (k + 1) + 1 \in 0 .. (LastMonth + 1)
      BY <2>2, <1>3
    <3> QED BY <3>1, <1>4, CalendarAssumption
  <2>4. MonthOf[d + 1] = k + 1
    <3>1. FirstDay[k + 1] <= d + 1 /\ d + 1 < FirstDay[(k + 1) + 1]
      BY <2>1, <2>3, <1>5
    <3> QED BY <3>1, <2>2, <1>2, MonthUnique
  <2>5. DayOfMonth(d + 1) = 1
    BY <2>1, <2>4, <1>5 DEF DayOfMonth
  <2>6. MaxCycleDay <= DayOfMonth(d)
    BY <2>1, <1>1, <1>2, <1>3, <1>5 DEF DayOfMonth
  <2> QED BY <2>4, <2>5, <2>6, <1>1
<1> QED BY <1>6, <1>7

LEMMA JobMonth ==
  ASSUME NEW d, NEW D
  PROVE  \/ LastClosedCycle(d, D) = (MonthOf[d] + 1) - 1 /\ D > 1 /\ DayOfMonth(d) >= D
         \/ LastClosedCycle(d, D) = MonthOf[d] - 1
BY DEF LastClosedCycle, CycleContaining

LEMMA MonthBeforeClosed ==
  ASSUME NEW d \in WorkDays, NEW D \in CycleDaysAllowed, NEW m \in Months, m = MonthOf[d] - 1
  PROVE  PeriodEnd(m, D) < d
<1>1. PeriodEnd(m, D) \in Days /\ PeriodEnd(m, D) \in Int /\ d \in Days /\ d \in Int
  BY PeriodInCalendar, CalendarInts
<1>2. MonthOf[PeriodEnd(m, D)] = m
  BY CompetenciaOfPeriod DEF Competencia
<1>3. MonthOf[d] \in Int /\ m \in Int
  <2>1. MonthOf[d] \in 0 .. LastMonth
    BY <1>1, CalendarAssumption
  <2> QED BY <2>1, BoundsAreNat DEF Months
<1>4. ~(d <= PeriodEnd(m, D))
  <2> SUFFICES ASSUME d <= PeriodEnd(m, D) PROVE FALSE
    OBVIOUS
  <2>1. MonthOf[d] <= m
    BY <1>1, <1>2, MonthsInOrder
  <2> QED BY <2>1, <1>3
<1> QED BY <1>1, <1>4

LEMMA StartBeforeMonth ==
  ASSUME NEW m \in Months, NEW D \in CycleDaysAllowed
  PROVE  PeriodStart(m, D) <= FirstDay[m]
<1>1. /\ m \in Int /\ D \in Int /\ 1 <= D /\ D <= MaxCycleDay /\ MaxCycleDay \in Nat
      /\ m \in 0 .. (LastMonth + 1) /\ m - 1 \in 0 .. LastMonth /\ m - 1 \in 0 .. (LastMonth + 1)
      /\ (m - 1) + 1 = m
  BY BoundsAreNat DEF Months, CycleDaysAllowed
<1>2. FirstDay[m] \in Nat /\ FirstDay[m - 1] \in Nat /\ FirstDay[m] - FirstDay[m - 1] >= MaxCycleDay
  <2>1. FirstDay[(m - 1) + 1] - FirstDay[m - 1] >= MaxCycleDay
    BY <1>1, CalendarAssumption
  <2> QED BY <2>1, <1>1, CalendarAssumption
<1>3. CASE D <= 1
  BY <1>2, <1>3 DEF PeriodStart
<1>4. CASE ~(D <= 1)
  BY <1>1, <1>2, <1>4 DEF PeriodStart
<1> QED BY <1>3, <1>4

LEMMA DayAfter == ASSUME NEW c \in Days, NEW d \in Days, c < d PROVE c + 1 \in Days
<1>1. FirstDay[0] \in Int /\ FirstDay[LastMonth + 1] \in Int
  <2>1. 0 \in 0 .. (LastMonth + 1) /\ LastMonth + 1 \in 0 .. (LastMonth + 1)
    BY BoundsAreNat
  <2> QED BY <2>1, CalendarAssumption
<1> QED BY <1>1 DEF Days

-----------------------------------------------------------------------------
(* A steady customer: staff only change its cycle day, its contracts cover  *)
(* every day, it was billed without a break up to the month that had closed *)
(* by its first day, and the nights the job may miss in a row end before    *)
(* any cycle day but the first can close.  Without the last, a month missed *)
(* on its first night is never billed once the day moves to the second: the *)
(* job goes on to the next month, which is not stitched to it.              *)
BilledSteadily(first, D, table) ==
  \E a, b \in Months :
    /\ a + 2 <= MonthOf[first]
    /\ MonthOf[first] <= b + (IF DayOfMonth(first) = 1 THEN 2 ELSE 1)
    /\ \A m \in Months : table[PeriodStart(m, D)] # NoInvoice <=> a <= m /\ m <= b
    /\ \A s \in Days : table[s].status # "CANCELLED"
SteadyTerms ==
  /\ "contracts" \notin StaffMay
  /\ MaxMissed < MaxCycleDay
  /\ \A D \in CycleDays \cup FirstCycleDays : D = 1 \/ MaxMissed + 1 < D
  /\ \A d \in Days : \E c \in 1 .. Len(InitContracts) :
       InitContracts[c].start <= d /\ d <= InitContracts[c].end
SteadyHistory ==
  /\ StaffMay \subseteq {"setCycleDay"}
  /\ SteadyTerms
  /\ \A D \in FirstCycleDays : BilledSteadily(FirstToday, D, InitInvoices[D])

(* Its table: every row counts, each but the last is followed by one that   *)
(* starts on the next day, and no month between two rows is without one.    *)
Month == MonthOf[today]
HasRow(n) == \E s \in Days : Exists(s) /\ Competencia(invoices[s].end) = n
AllLive == \A s \in Days : Exists(s) => Live(s)
Tiled ==
  \A s, t \in Days : Exists(s) /\ Exists(t) /\ s < t =>
    invoices[s].end < t /\ Exists(invoices[s].end + 1)
Unskipped ==
  \A s, t \in Days : Exists(s) /\ Exists(t) =>
    \A n \in Competencia(invoices[s].end) .. Competencia(invoices[t].end) : HasRow(n)
TableInv == AllLive /\ Tiled /\ Unskipped

\* The start s was read right after row p, the last one that ends before e.
Follows(p, s, e) ==
  /\ Exists(p) /\ s = invoices[p].end + 1
  /\ Competencia(invoices[p].end) \in {Competencia(e) - 1, Competencia(e)}
  /\ \A t \in Days : Exists(t) /\ invoices[t].end < e => invoices[t].end <= invoices[p].end

\* What the job has read, and what the nights it missed can have cost.
JobReads ==
  LET r == req[Cron] IN
  /\ pc[Cron] # "idle" => /\ cronRun = "runs"
                          /\ r.month = Month - 1 \/ (r.month = Month /\ HasRow(Month - 1))
  /\ pc[Cron] \in HasPeriod => /\ Competencia(r.end) = r.month
                              /\ \E p \in Days : Follows(p, r.start, r.end)
  /\ pc[Cron] \in {"bill", "write"} => ~Exists(r.start)
  /\ cronRun = "done" => HasRow(Month - 1)
NightsLost ==
  /\ missed <= MaxMissed
  /\ cronRun = "failed" => missed < MaxMissed
  /\ HasRow(Month - 2)
  /\ HasRow(Month - 1) \/ DayOfMonth(today) - 1 <= missed
Undisturbed ==
  /\ contracts = InitContracts
  /\ cycleDay \in CycleDays \cup FirstCycleDays
  /\ 3 <= Month
  /\ \A w \in Staff : pc[w] = "idle"
SteadyInv == Inv /\ TableInv /\ JobReads /\ NightsLost /\ Undisturbed

LEMMA EndMonths ==
  ASSUME InvoicingTypeOK, NEW s \in Days, Exists(s)
  PROVE  /\ invoices[s].end \in Days /\ invoices[s].end \in Int /\ s \in Int
         /\ Competencia(invoices[s].end) \in 0 .. LastMonth /\ Competencia(invoices[s].end) \in Int
<1>1. invoices[s].end \in Days
  BY RowExists
<1>2. MonthOf[invoices[s].end] \in 0 .. LastMonth
  BY <1>1, CalendarAssumption
<1> QED BY <1>1, <1>2, DayIsInt, BoundsAreNat DEF Competencia

\* The first read of the job joins the period to the row before it.
LEMMA StartFollows ==
  ASSUME InvoicingTypeOK, AllLive, NEW m \in Months, NEW D \in CycleDaysAllowed,
         HasRow(m - 1), NEW s \in StartsFor(m, D)
  PROVE  \E p \in Days : Follows(p, s, PeriodEnd(m, D))
<1> DEFINE e == PeriodEnd(m, D)
           prev == Previous(e)
<1>1. e \in Days /\ e \in Int /\ Competencia(e) = m /\ m \in Int
  BY PeriodInCalendar, CompetenciaOfPeriod, DayIsInt DEF Months
<1> HIDE DEF e
<1>2. PICK z \in Days : Exists(z) /\ Competencia(invoices[z].end) = m - 1
  BY DEF HasRow
<1>3. invoices[z].end < e
  <2>1. invoices[z].end \in Days /\ invoices[z].end \in Int
    BY <1>2, EndMonths
  <2>2. e <= invoices[z].end => m <= m - 1
    BY <1>1, <1>2, <2>1, MonthsInOrder DEF Competencia
  <2> QED BY <1>1, <2>1, <2>2
<1>4. z \in prev
  BY <1>2, <1>3 DEF Previous, AllLive
<1>5. PICK p \in Latest(prev) :
        s = (IF Stitches(m, D, p) THEN invoices[p].end + 1 ELSE PeriodStart(m, D))
  BY <1>4 DEF StartsFor, e
<1>6. /\ p \in Days /\ Exists(p) /\ invoices[p].end < e
      /\ \A t \in prev : invoices[t].end <= invoices[p].end
  BY <1>5 DEF Latest, Previous, Live
<1>7. /\ invoices[p].end \in Days /\ invoices[p].end \in Int
      /\ Competencia(invoices[p].end) \in 0 .. LastMonth /\ Competencia(invoices[p].end) \in Int
      /\ invoices[z].end \in Days
  BY <1>2, <1>6, EndMonths
<1>8. Competencia(invoices[p].end) \in {m - 1, m}
  <2>1. m - 1 <= Competencia(invoices[p].end)
    BY <1>2, <1>4, <1>6, <1>7, MonthsInOrder DEF Competencia
  <2>2. Competencia(invoices[p].end) <= m
    <3>1. invoices[p].end <= e
      BY <1>1, <1>6, <1>7
    <3> QED BY <3>1, <1>1, <1>7, MonthsInOrder DEF Competencia
  <2> QED BY <2>1, <2>2, <1>1, <1>7
<1>9. Stitches(m, D, p)
  <2>1. CASE Competencia(invoices[p].end) = m
    <3>1. FirstDay[m] <= invoices[p].end
      BY <2>1, <1>7, CalendarAssumption DEF Competencia
    <3>2. PeriodStart(m, D) <= FirstDay[m]
      BY StartBeforeMonth
    <3>3. PeriodStart(m, D) \in Int /\ FirstDay[m] \in Int
      <4>1. m \in 0 .. (LastMonth + 1)
        BY BoundsAreNat DEF Months
      <4> QED BY <4>1, PeriodInCalendar, DayIsInt, CalendarAssumption
    <3>4. invoices[p].end >= PeriodStart(m, D)
      BY <3>1, <3>2, <3>3, <1>7
    <3> QED BY <3>4 DEF Stitches
  <2>2. CASE Competencia(invoices[p].end) = m - 1
    BY <2>2 DEF Stitches
  <2> QED BY <1>8, <2>1, <2>2
<1>10. \A t \in Days : Exists(t) /\ invoices[t].end < e => invoices[t].end <= invoices[p].end
  BY <1>6 DEF Previous, AllLive
<1>11. Follows(p, s, e)
  BY <1>1, <1>5, <1>6, <1>8, <1>9, <1>10 DEF Follows
<1> QED BY <1>6, <1>11 DEF e

\* A new row that follows p is the last one, and leaves the table tiled.
LEMMA RowJoins ==
  ASSUME InvoicingTypeOK, OnlyClosedPeriods, TableInv,
         NEW s \in Days, NEW row \in InvoiceRow, row.status = "PENDING", s <= row.end,
         NEW p \in Days, Follows(p, s, row.end), ~Exists(s),
         invoices' = [invoices EXCEPT ![s] = row]
  PROVE  /\ TableInv' /\ HasRow(Competencia(row.end))'
         /\ \A n : HasRow(n) => HasRow(n)'
<1>1. /\ \A t \in Days : t # s => invoices'[t] = invoices[t]
      /\ invoices'[s] = row
  BY DEF InvoicingTypeOK
<1>2. /\ \A t \in Days : t # s => (Exists(t)' <=> Exists(t))
      /\ Exists(s)'
      /\ \A t \in Days : Exists(t) => t # s /\ Exists(t)' /\ invoices'[t] = invoices[t]
  BY <1>1, RowIsARow DEF Exists
<1>3. /\ Exists(p) /\ s = invoices[p].end + 1 /\ p <= invoices[p].end
      /\ p \in Int /\ s \in Int /\ invoices[p].end \in Int
  BY EndMonths DEF Follows, OnlyClosedPeriods
<1>4. ASSUME NEW t \in Days, Exists(t) PROVE t <= p /\ t < s /\ invoices[t].end < s
  <2>1. t \in Int /\ invoices[t].end \in Int
    BY <1>4, EndMonths
  <2>2. ~(p < t)
    <3> SUFFICES ASSUME p < t PROVE FALSE
      OBVIOUS
    <3>1. Exists(invoices[p].end + 1)
      BY <1>3, <1>4 DEF TableInv, Tiled
    <3> QED BY <3>1, <1>3
  <2>3. t = p \/ t < p
    BY <2>1, <2>2, <1>3
  <2>4. t < p => invoices[t].end < p
    BY <1>3, <1>4 DEF TableInv, Tiled
  <2> QED BY <2>1, <2>3, <2>4, <1>3
<1>5. AllLive'
  <2> SUFFICES ASSUME NEW t \in Days, Exists(t)' PROVE invoices'[t].status # "CANCELLED"
    BY DEF AllLive, Live, Exists
  <2>1. CASE t = s
    BY <2>1, <1>1
  <2>2. CASE t # s
    BY <2>2, <1>1, <1>2 DEF TableInv, AllLive, Live
  <2> QED BY <2>1, <2>2
<1>6. Tiled'
  <2> SUFFICES ASSUME NEW t \in Days, NEW u \in Days, Exists(t)', Exists(u)', t < u
               PROVE  invoices'[t].end < u /\ invoices'[invoices'[t].end + 1] # NoInvoice
    BY DEF Tiled, Exists
  <2>0. \A x \in Days : Exists(x)' <=> invoices'[x] # NoInvoice
    BY DEF Exists
  <2>1. CASE t = s
    <3>1. u # s /\ Exists(u)
      BY <2>1, <1>2, <1>3
    <3>2. u < s /\ u \in Int
      BY <3>1, <1>4, DayIsInt
    <3> QED BY <3>2, <2>1, <1>3
  <2>2. CASE t # s
    <3>1. Exists(t) /\ invoices'[t] = invoices[t] /\ t <= p /\ t \in Int
      BY <2>2, <1>1, <1>2, <1>4, DayIsInt
    <3>2. CASE u = s
      <4>1. invoices[t].end < u
        BY <3>1, <3>2, <1>4
      <4>2. CASE t = p
        <5>1. invoices[t].end + 1 = s
          BY <4>2, <1>3
        <5> QED BY <3>1, <4>1, <5>1, <1>2, <2>0
      <4>3. CASE t < p
        <5>1. invoices[t].end < p /\ Exists(invoices[t].end + 1)
          BY <3>1, <4>3, <1>3 DEF TableInv, Tiled
        <5>2. invoices[t].end + 1 \in Days
          BY <3>1, <5>1, EndMonths, DayAfter
        <5>3. invoices'[invoices[t].end + 1] # NoInvoice
          BY <5>1, <5>2, <1>2, <2>0
        <5> QED BY <3>1, <4>1, <5>3
      <4> QED BY <3>1, <1>3, <4>2, <4>3
    <3>3. CASE u # s
      <4>1. Exists(u)
        BY <3>3, <1>2
      <4>2. invoices[t].end < u /\ Exists(invoices[t].end + 1)
        BY <3>1, <4>1 DEF TableInv, Tiled
      <4>3. invoices[t].end + 1 \in Days
        BY <3>1, <4>2, EndMonths, DayAfter
      <4>4. invoices'[invoices[t].end + 1] # NoInvoice
        BY <4>2, <4>3, <1>2, <2>0
      <4> QED BY <3>1, <4>2, <4>4
    <3> QED BY <3>2, <3>3
  <2> QED BY <2>1, <2>2
<1>7. ASSUME NEW n, HasRow(n) PROVE HasRow(n)'
  BY <1>2, <1>7 DEF HasRow
<1>8. HasRow(Competencia(row.end))'
  BY <1>1, <1>2 DEF HasRow, Competencia
<1>9. Unskipped'
  <2> SUFFICES ASSUME NEW t \in Days, NEW u \in Days, Exists(t)', Exists(u)',
                      NEW n \in Competencia(invoices'[t].end) .. Competencia(invoices'[u].end)
               PROVE  HasRow(n)'
    BY DEF Unskipped, Exists, Competencia
  <2>1. row.end \in Days /\ row.end \in Int /\ Competencia(row.end) \in Int
    <3>1. row.end \in Days
      BY DEF InvoiceRow
    <3>2. MonthOf[row.end] \in 0 .. LastMonth
      BY <3>1, CalendarAssumption
    <3> QED BY <3>1, <3>2, DayIsInt, BoundsAreNat DEF Competencia
  <2>2. CASE u # s
    <3>1. Exists(u) /\ invoices'[u] = invoices[u] /\ invoices[u].end < s
      BY <2>2, <1>1, <1>2, <1>4
    <3>2. CASE t # s
      <4>1. Exists(t) /\ invoices'[t] = invoices[t]
        BY <3>2, <1>1, <1>2
      <4> QED BY <3>1, <4>1, <1>7 DEF TableInv, Unskipped
    <3>3. CASE t = s
      <4>1. invoices[u].end \in Days /\ invoices[u].end \in Int /\ Competencia(invoices[u].end) \in Int
        BY <3>1, EndMonths
      <4>2. Competencia(invoices[u].end) <= Competencia(row.end)
        BY <3>1, <4>1, <2>1, <1>3, MonthsInOrder DEF Competencia
      <4>3. n = Competencia(row.end)
        BY <3>1, <3>3, <4>1, <4>2, <2>1, <1>1
      <4> QED BY <4>3, <1>8 DEF HasRow, Competencia
    <3> QED BY <3>2, <3>3
  <2>3. CASE u = s
    <3>1. /\ Competencia(invoices[p].end) \in {Competencia(row.end) - 1, Competencia(row.end)}
          /\ n \in Int /\ Competencia(invoices'[t].end) <= n /\ n <= Competencia(row.end)
      BY <2>1, <2>3, <1>1 DEF Follows
    <3>2. CASE n = Competencia(row.end)
      BY <3>2, <1>8 DEF HasRow, Competencia
    <3>3. CASE n # Competencia(row.end)
      <4>1. t # s
        BY <3>1, <3>3, <2>1, <1>1
      <4>2. Exists(t) /\ invoices'[t] = invoices[t] /\ Competencia(invoices[t].end) \in Int
        BY <4>1, <1>1, <1>2, EndMonths
      <4>3. Competencia(invoices[p].end) \in Int
        BY <1>3, EndMonths
      <4>4. n \in Competencia(invoices[t].end) .. Competencia(invoices[p].end)
        BY <3>1, <3>3, <4>2, <4>3, <2>1
      <4> QED BY <4>2, <4>4, <1>3, <1>7 DEF TableInv, Unskipped
    <3> QED BY <3>2, <3>3
  <2> QED BY <2>2, <2>3
<1> QED BY <1>5, <1>6, <1>7, <1>8, <1>9 DEF TableInv

\* In a tiled table every day from one row to a later one is on some row.
LEMMA TiledCovers ==
  ASSUME InvoicingTypeOK, OnlyClosedPeriods, TableInv,
         NEW s \in Days, NEW t \in Days, Exists(s), Exists(t), s < t, NEW d \in s .. (t - 1)
  PROVE  \E u \in Days : Live(u) /\ u <= d /\ d <= invoices[u].end
<1>1. s \in Int /\ t \in Int /\ d \in Int /\ s <= d /\ d < t
  BY DayIsInt
<1> DEFINE T == {n \in Nat : \E u \in Days : Exists(u) /\ u <= d /\ n = d - u}
           R == OpToRel(<, Nat)
<1>2. d - s \in T
  BY <1>1
<1>3. IsWellFoundedOn(R, Nat)
  BY NatLessThanWellFounded
<1>4. \A x, y \in Nat : <<y, x>> \in R <=> y < x
  BY DEF OpToRel
<1>5. T \in SUBSET Nat
  OBVIOUS
<1> HIDE DEF R, T
<1>6. \E x \in T : \A y \in T : ~(<<y, x>> \in R)
  BY <1>2, <1>3, <1>5, WFMin
<1>7. PICK n \in T : \A k \in T : ~(k < n)
  BY <1>4, <1>5, <1>6
<1>8. PICK u \in Days : Exists(u) /\ u <= d /\ n = d - u
  BY <1>7 DEF T
<1>9. u \in Int /\ invoices[u].end \in Int /\ u <= invoices[u].end
  BY <1>8, EndMonths DEF OnlyClosedPeriods
<1>10. d <= invoices[u].end
  <2> SUFFICES ASSUME invoices[u].end < d PROVE FALSE
    BY <1>1, <1>9
  <2>1. u < t
    BY <1>1, <1>8, <1>9
  <2>2. invoices[u].end < t /\ Exists(invoices[u].end + 1)
    BY <1>8, <2>1 DEF TableInv, Tiled
  <2>3. invoices[u].end + 1 \in Days
    BY <1>8, <2>2, EndMonths, DayAfter
  <2>4. d - (invoices[u].end + 1) \in Nat /\ invoices[u].end + 1 <= d
    BY <1>1, <1>9
  <2>5. d - (invoices[u].end + 1) \in T
    BY <2>2, <2>3, <2>4 DEF T
  <2>6. d - (invoices[u].end + 1) < n
    BY <1>1, <1>8, <1>9
  <2> QED BY <1>7, <2>5, <2>6
<1> QED BY <1>8, <1>10 DEF TableInv, AllLive

\* What may happen to a steady customer while staff start no request.
LEMMA SteadySteps ==
  ASSUME SteadyTerms, Inv, Undisturbed, [Next]_vars, \A w \in Staff : pc'[w] = "idle"
  PROVE  /\ contracts' = contracts
         /\ \/ /\ CronStart \/ GenerateStep(Cron) \/ Abort(Cron)
               /\ UNCHANGED today
            \/ SetCycleDay /\ UNCHANGED today
            \/ NextDay
            \/ UNCHANGED <<today, invoiceVars>>
<1>1. "contracts" \notin StaffMay
  BY DEF SteadyTerms
<1>2. ASSUME NEW w \in Staff PROVE ~GenerateStep(w) /\ ~Abort(w) /\ ~StaffStep(w)
  <2>1. pc \in [Workers -> PcType] /\ w \in Workers /\ pc[w] = "idle" /\ pc'[w] = "idle"
    BY DEF Inv, InvoicingTypeOK, PcType, Generating, Workers, Undisturbed
  <2>2. ~GenerateStep(w) /\ ~Abort(w)
    BY <2>1 DEF GenerateStep, ReadCustomer, ReadPeriod, ReadExisting, ResolveBilling,
                WriteInvoice, Abort, Idle
  <2>3. ~StaffStep(w)
    BY <2>1 DEF StaffStep, StaffGenerate, MarkPaid, WritePaid, CancelInvoice, WriteCancelled
  <2> QED BY <2>2, <2>3
<1>3. CASE UNCHANGED vars
  BY <1>3 DEF vars, contractVars
<1>4. CASE Next
  BY <1>1, <1>2, <1>4 DEF Next, Workers, contractVars
<1> QED BY <1>3, <1>4

\* Staff who may only change the cycle day start none.
LEMMA StaffStayIdle ==
  ASSUME StaffMay \subseteq {"setCycleDay"}, Inv, Undisturbed, [Next]_vars
  PROVE  \A w \in Staff : pc'[w] = "idle"
<1>1. ASSUME NEW w \in Staff PROVE ~GenerateStep(w) /\ ~Abort(w) /\ ~StaffStep(w)
  <2>1. "generate" \notin StaffMay /\ "pay" \notin StaffMay /\ "cancel" \notin StaffMay
    OBVIOUS
  <2> QED
    BY <2>1 DEF Undisturbed, GenerateStep, ReadCustomer, ReadPeriod, ReadExisting, ResolveBilling,
                WriteInvoice, Abort, Idle, StaffStep, StaffGenerate, MarkPaid, WritePaid,
                CancelInvoice, WriteCancelled
<1>2. Cron \in Workers /\ Cron \notin Staff /\ \A w \in Staff : w \in Workers
  BY InvoicingAssumption DEF Workers
<1>3. CASE CronStart \/ GenerateStep(Cron) \/ Abort(Cron)
  <2>1. Acts(Cron)
    BY <1>3 DEF Acts
  <2>2. \A w \in Staff : pc'[w] = pc[w]
    BY <1>2, <2>1, OthersRest
  <2> QED BY <2>2 DEF Undisturbed
<1>4. CASE UNCHANGED pc
  BY <1>4 DEF Undisturbed
<1>5. UNCHANGED vars => UNCHANGED pc
  BY DEF vars, invoiceVars
<1>6. "contracts" \notin StaffMay
  OBVIOUS
<1>7. Next => CronStart \/ GenerateStep(Cron) \/ Abort(Cron) \/ UNCHANGED pc
  BY <1>1, <1>2, <1>6 DEF Next, Workers, SetCycleDay, NextDay
<1> QED BY <1>3, <1>4, <1>5, <1>7

\* A step that writes no row leaves what the table says of itself.
LEMMA RowsAlone ==
  ASSUME UNCHANGED invoices
  PROVE  /\ TableInv => TableInv'
         /\ \A n : HasRow(n)' <=> HasRow(n)
         /\ \A p, s, e : Follows(p, s, e)' <=> Follows(p, s, e)
<1>1. \A n : HasRow(n)' <=> HasRow(n)
  BY DEF HasRow, Exists, Competencia
<1>2. \A s : Exists(s)' <=> Exists(s)
  BY DEF Exists
<1>3. \A p, s, e : Follows(p, s, e)' <=> Follows(p, s, e)
  BY <1>2 DEF Follows, Competencia
<1>4. AllLive => AllLive'
  BY <1>2 DEF AllLive, Live
<1>5. Tiled => Tiled'
  BY DEF Tiled, Exists
<1>6. Unskipped => Unskipped'
  <2> SUFFICES ASSUME Unskipped, NEW s \in Days, NEW t \in Days, Exists(s), Exists(t),
                      NEW n \in Competencia(invoices[s].end) .. Competencia(invoices[t].end)
               PROVE  HasRow(n)'
    BY <1>2 DEF Unskipped, Competencia
  <2> QED BY <1>1 DEF Unskipped
<1> QED BY <1>1, <1>3, <1>4, <1>5, <1>6 DEF TableInv

\* Some contract covers every period.
LEMMA SteadilyCovered ==
  ASSUME SteadyTerms, contracts = InitContracts, InvoicingTypeOK,
         NEW s \in Days, NEW e \in Days, s <= e
  PROVE  Covering(s, e) # {} /\ Len(contracts) # 0
<1>1. PICK c \in 1 .. Len(contracts) : contracts[c].start <= e /\ e <= contracts[c].end
  BY DEF SteadyTerms
<1>2. contracts[c] \in ContractRow
  BY DEF InvoicingTypeOK, ContractsTypeOK
<1>3. contracts[c].end \in Int /\ s \in Int /\ e \in Int
  <2>1. Open \in Int
    BY CalendarInts
  <2> QED BY <1>2, <2>1, DayIsInt DEF ContractRow
<1>4. s <= contracts[c].end
  BY <1>1, <1>3
<1>5. c \in Covering(s, e)
  BY <1>1, <1>4 DEF Covering
<1>6. Len(contracts) # 0
  <2>1. Len(contracts) \in Nat
    BY LenProperties DEF InvoicingTypeOK, ContractsTypeOK
  <2> QED BY <1>1, <2>1
<1> QED BY <1>5, <1>6

\* The job's own steps.
LEMMA SteadyJob ==
  ASSUME SteadyTerms, SteadyInv, contracts' = contracts, UNCHANGED today,
         CronStart \/ GenerateStep(Cron) \/ Abort(Cron)
  PROVE  TableInv' /\ JobReads' /\ NightsLost' /\ Undisturbed'
<1> DEFINE c == Cron
<1> PICK r : r = req[c]
  OBVIOUS
<1> PICK k : k = Month
  OBVIOUS
<1>0. /\ Inv /\ InvoicingTypeOK /\ OnlyClosedPeriods /\ RequestsOK
      /\ TableInv /\ JobReads /\ NightsLost /\ Undisturbed
      /\ c \in Workers /\ c \notin Staff /\ Acts(c) /\ Month' = Month
      /\ pc \in [Workers -> PcType] /\ req \in [Workers -> Request]
  BY InvoicingAssumption
     DEF SteadyInv, Inv, InvoicingTypeOK, PcType, Generating, Workers, Acts, Month
<1>1. /\ today \in WorkDays /\ today \in Days /\ today \in Int
      /\ k \in 0 .. LastMonth /\ k \in Int /\ k - 1 \in Months /\ k \in Months /\ 3 <= k
  <2>1. today \in WorkDays /\ today \in Days /\ today \in Int
    BY <1>0, CalendarInts DEF InvoicingTypeOK, ContractsTypeOK
  <2>2. MonthOf[today] \in 0 .. LastMonth /\ LastMonth \in Nat
    BY <2>1, CalendarAssumption
  <2> QED BY <1>0, <2>1, <2>2 DEF Undisturbed, Month, Months
<1>2. /\ cycleDay' = cycleDay /\ missed' = missed /\ r \in Request
      /\ \A w \in Staff : pc'[w] = "idle"
  <2>1. cycleDay' = cycleDay
    BY <1>0 DEF Acts, CronStart, GenerateStep, ReadCustomer, ReadPeriod, ReadExisting,
                ResolveBilling, WriteInvoice, Abort, StaffStep
  <2>2. missed' = missed
    BY <1>0, JobRests
  <2>3. \A w \in Staff : pc'[w] = pc[w]
    BY <1>0, OthersRest DEF Workers
  <2> QED BY <1>0, <2>1, <2>2, <2>3 DEF Undisturbed
<1> HIDE DEF c
<1>3. Undisturbed'
  BY <1>0, <1>2 DEF Undisturbed
<1>4. (\A n : HasRow(n) => HasRow(n)') /\ (cronRun' = "failed" => missed < MaxMissed) => NightsLost'
  <2> SUFFICES ASSUME \A n : HasRow(n) => HasRow(n)', cronRun' = "failed" => missed < MaxMissed
               PROVE  NightsLost'
    OBVIOUS
  <2>1. HasRow(Month - 2)' /\ (HasRow(Month - 1)' \/ DayOfMonth(today) - 1 <= missed)
    <3>1. HasRow(k - 2)' /\ (HasRow(k - 1)' \/ DayOfMonth(today) - 1 <= missed)
      BY <1>0 DEF NightsLost
    <3> QED BY <3>1, <1>0 DEF HasRow, Month
  <2> QED BY <2>1, <1>0, <1>2 DEF NightsLost, DayOfMonth
<1>5. ASSUME NEW p, NEW q, pc' = [pc EXCEPT ![c] = p], req' = [req EXCEPT ![c] = q],
             cronRun' = "runs", UNCHANGED invoices,
             q.month = k - 1 \/ (q.month = k /\ HasRow(k - 1)),
             p \in HasPeriod => /\ Competencia(q.end) = q.month
                                /\ \E x \in Days : Follows(x, q.start, q.end),
             p \in {"bill", "write"} => ~Exists(q.start)
      PROVE  TableInv' /\ JobReads' /\ NightsLost' /\ Undisturbed'
  <2>1. /\ TableInv' /\ \A n : HasRow(n)' <=> HasRow(n)
        /\ \A x, s, e : Follows(x, s, e)' <=> Follows(x, s, e)
    BY <1>0, <1>5, RowsAlone
  <2>2. pc'[c] = p /\ req'[c] = q
    BY <1>0, <1>5
  <2>3. q.month = k - 1 \/ (q.month = k /\ HasRow(Month - 1)')
    <3>1. HasRow(k - 1)' => HasRow(Month - 1)'
      BY <1>0 DEF HasRow, Month
    <3> QED BY <3>1, <2>1, <1>5
  <2>4. p \in HasPeriod => /\ Competencia(q.end) = q.month
                           /\ \E x \in Days : Follows(x, req[Cron].start, req[Cron].end)'
    <3>1. ASSUME NEW x \in Days, Follows(x, q.start, q.end)
          PROVE  Follows(x, req[Cron].start, req[Cron].end)'
      BY <2>2, <3>1, <1>5 DEF Follows, Exists, Competencia, c
    <3> QED BY <3>1, <1>5
  <2>5. p \in {"bill", "write"} => ~Exists(req[Cron].start)'
    BY <2>2, <1>5 DEF Exists, c
  <2>6. JobReads'
    BY <2>2, <2>3, <2>4, <2>5, <1>0, <1>5 DEF JobReads, c, Competencia, Month
  <2>7. NightsLost'
    BY <2>1, <1>4, <1>5
  <2> QED BY <2>1, <2>6, <2>7, <1>3
<1>6. ASSUME Finish(c), \A n : HasRow(n) => HasRow(n)', HasRow(k - 1)', TableInv'
      PROVE  TableInv' /\ JobReads' /\ NightsLost' /\ Undisturbed'
  <2>1. pc'[c] = "idle" /\ cronRun' = "done"
    BY <1>0, <1>6 DEF Finish, c
  <2>2. HasRow(Month - 1)'
    BY <1>0, <1>6 DEF HasRow, Month
  <2>3. JobReads'
    BY <2>1, <2>2 DEF JobReads, HasPeriod, c
  <2> QED BY <2>1, <2>3, <1>3, <1>4, <1>6
<1>7. ASSUME GenerateStep(c)
      PROVE  /\ cronRun = "runs" /\ r.month \in Months
             /\ r.month = k - 1 \/ (r.month = k /\ HasRow(k - 1))
  <2>1. pc[c] # "idle" /\ pc[c] \in Generating
    BY <1>7 DEF GenerateStep, ReadCustomer, ReadPeriod, ReadExisting, ResolveBilling,
                WriteInvoice, Generating
  <2> QED BY <1>0, <2>1 DEF JobReads, RequestsOK, c
<1>8. CASE CronStart
  <2> DEFINE q == [NoRequest EXCEPT !.month = LastClosedCycle(today, cycleDay)]
  <2>1. q.month = LastClosedCycle(today, cycleDay)
    BY DEF NoRequest
  <2>2. /\ pc' = [pc EXCEPT ![c] = "customer"] /\ req' = [req EXCEPT ![c] = q]
        /\ cronRun' = "runs" /\ UNCHANGED invoices
    BY <1>8 DEF CronStart, c
  <2>3. q.month = k - 1 \/ (q.month = k /\ HasRow(k - 1))
    <3>1. CASE LastClosedCycle(today, cycleDay) = (k + 1) - 1 /\ cycleDay > 1 /\ DayOfMonth(today) >= cycleDay
      <4>1. MaxMissed + 1 < cycleDay
        BY <3>1, <1>0 DEF SteadyTerms, Undisturbed
      <4>2. cycleDay \in Int /\ MaxMissed \in Nat /\ missed \in Nat
        BY <1>0, InvoicingAssumption DEF InvoicingTypeOK, CycleDaysAllowed
      <4>3. DayOfMonth(today) \in Int
        <5>1. MonthOf[today] \in 0 .. LastMonth
          BY <1>1 DEF Month
        <5>2. FirstDay[MonthOf[today]] \in Nat
          <6>1. MonthOf[today] \in 0 .. (LastMonth + 1)
            BY <5>1, BoundsAreNat
          <6> QED BY <6>1, CalendarAssumption
        <5> QED BY <5>2, <1>1 DEF DayOfMonth
      <4>4. ~(DayOfMonth(today) - 1 <= missed)
        BY <3>1, <4>1, <4>2, <4>3, <1>0 DEF NightsLost
      <4>5. HasRow(k - 1)
        BY <4>4, <1>0 DEF NightsLost
      <4>6. (k + 1) - 1 = k
        BY <1>1
      <4> QED BY <2>1, <3>1, <4>5, <4>6
    <3>2. CASE LastClosedCycle(today, cycleDay) = k - 1
      BY <2>1, <3>2
    <3> QED BY <3>1, <3>2, JobMonth DEF Month
  <2>4. "customer" \notin HasPeriod /\ "customer" \notin {"bill", "write"}
    BY DEF HasPeriod
  <2> HIDE DEF q
  <2> QED BY <1>5, <2>2, <2>3, <2>4
<1>9. CASE ReadCustomer(c)
  <2> DEFINE q == [r EXCEPT !.day = cycleDay]
  <2>1. /\ pc' = [pc EXCEPT ![c] = "period"] /\ req' = [req EXCEPT ![c] = q]
        /\ cronRun' = "runs" /\ UNCHANGED invoices
    BY <1>7, <1>9 DEF ReadCustomer, GenerateStep, NotByCron
  <2>2. q.month = r.month /\ "period" \notin HasPeriod /\ "period" \notin {"bill", "write"}
    BY <1>2 DEF HasPeriod, Request
  <2>3. q.month = k - 1 \/ (q.month = k /\ HasRow(k - 1))
    BY <2>2, <1>7, <1>9 DEF GenerateStep
  <2> HIDE DEF q
  <2> QED BY <1>5, <2>1, <2>2, <2>3
<1>10. CASE ReadPeriod(c)
  <2> DEFINE m == r.month
             e == PeriodEnd(m, r.day)
  <2>1. cronRun = "runs" /\ m \in Months /\ (m = k - 1 \/ (m = k /\ HasRow(k - 1)))
    BY <1>7, <1>10 DEF GenerateStep
  <2>2. r.day \in CycleDaysAllowed
    BY <1>2 DEF Request
  <2>3. UNCHANGED invoices /\ pc[c] = "period"
    BY <1>10 DEF ReadPeriod
  <2>4. CASE ~Closed(e) /\ Finish(c)
    <3>1. m # k - 1
      <4> SUFFICES ASSUME m = MonthOf[today] - 1 PROVE FALSE
        BY DEF Month
      <4>1. e < today
        BY <1>1, <2>1, <2>2, MonthBeforeClosed
      <4> QED BY <2>4, <4>1 DEF Closed
    <3>2. HasRow(k - 1)
      BY <2>1, <3>1
    <3>3. TableInv' /\ \A n : HasRow(n)' <=> HasRow(n)
      BY <1>0, <2>3, RowsAlone
    <3> HIDE DEF m, e
    <3> QED BY <1>6, <2>4, <3>2, <3>3
  <2>5. CASE /\ pc' = [pc EXCEPT ![c] = "existing"] /\ UNCHANGED cronRun
             /\ \E s \in StartsFor(m, r.day) : req' = [req EXCEPT ![c].start = s, ![c].end = e]
    <3>1. PICK s \in StartsFor(m, r.day) : req' = [req EXCEPT ![c].start = s, ![c].end = e]
      BY <2>5
    <3> DEFINE q == [r EXCEPT !.start = s, !.end = e]
    <3>2. req' = [req EXCEPT ![c] = q] /\ q.month = m /\ q.start = s /\ q.end = e
      BY <3>1, <1>0, <1>2 DEF Request
    <3>3. HasRow(m - 1)
      <4>1. m = k - 1 => m - 1 = k - 2
        BY <1>1
      <4> QED BY <4>1, <2>1, <1>0 DEF NightsLost
    <3>4. \E x \in Days : Follows(x, s, e)
      BY <3>3, <2>1, <2>2, <1>0, StartFollows DEF TableInv
    <3>5. Competencia(e) = m
      BY <2>1, <2>2, CompetenciaOfPeriod
    <3>6. "existing" \notin {"bill", "write"} /\ cronRun' = "runs"
      BY <2>1, <2>5
    <3>7. q.month = k - 1 \/ (q.month = k /\ HasRow(k - 1))
      BY <3>2, <2>1
    <3>8. Competencia(q.end) = q.month /\ \E x \in Days : Follows(x, q.start, q.end)
      BY <3>2, <3>4, <3>5
    <3> HIDE DEF q, m, e
    <3> QED BY <1>5, <2>3, <2>5, <3>2, <3>6, <3>7, <3>8
  <2> QED BY <1>10, <2>4, <2>5 DEF ReadPeriod
<1>11. CASE ReadExisting(c)
  <2> DEFINE m == r.month
             s == r.start
  <2>1. /\ cronRun = "runs" /\ m \in Months /\ (m = k - 1 \/ (m = k /\ HasRow(k - 1)))
        /\ pc[c] = "existing" /\ UNCHANGED invoices
    BY <1>7, <1>11 DEF ReadExisting, GenerateStep
  <2>2. PICK p \in Days : Follows(p, s, r.end)
    BY <1>0, <2>1 DEF JobReads, HasPeriod, c
  <2>3. Competencia(r.end) = m /\ s \in Days /\ r.end \in Days
    BY <1>0, <1>2, <2>1 DEF JobReads, HasPeriod, c, Request
  <2>4. TableInv' /\ \A n : HasRow(n)' <=> HasRow(n)
    BY <1>0, <2>1, RowsAlone
  <2>5. CASE Exists(s) /\ Finish(c)
    <3>1. HasRow(m)
      <4>1. /\ invoices[p].end \in Int /\ invoices[s].end \in Days /\ invoices[s].end \in Int
            /\ s \in Int /\ s <= invoices[s].end /\ s = invoices[p].end + 1
            /\ Competencia(invoices[s].end) \in Int
        BY <2>2, <2>3, <2>5, <1>0, EndMonths DEF Follows, OnlyClosedPeriods
      <4>2. ~(invoices[s].end <= invoices[p].end)
        BY <4>1
      <4>3. r.end <= invoices[s].end
        <5>1. ~(invoices[s].end < r.end)
          BY <2>2, <2>3, <2>5, <4>2 DEF Follows
        <5> QED BY <5>1, <4>1, <2>3, DayIsInt
      <4>4. m <= Competencia(invoices[s].end)
        BY <4>1, <4>3, <2>3, MonthsInOrder DEF Competencia
      <4>5. PICK z \in Days : Exists(z) /\ Competencia(invoices[z].end) = k - 2
        BY <1>0 DEF NightsLost, HasRow
      <4>6. m \in Competencia(invoices[z].end) .. Competencia(invoices[s].end)
        <5>1. m \in Int
          BY <2>1 DEF Months
        <5> QED BY <5>1, <4>1, <4>4, <4>5, <2>1, <1>1
      <4> QED BY <4>5, <4>6, <2>3, <2>5, <1>0 DEF TableInv, Unskipped
    <3>2. HasRow(k - 1)
      BY <2>1, <3>1
    <3> HIDE DEF m, s
    <3> QED BY <1>6, <2>4, <2>5, <3>2
  <2>6. CASE /\ ~Exists(s) /\ pc' = [pc EXCEPT ![c] = "bill"] /\ UNCHANGED cronRun
             /\ req' = [req EXCEPT ![c].replacing = Replaces(c, s)]
    <3> DEFINE q == [r EXCEPT !.replacing = Replaces(c, s)]
    <3>1. req' = [req EXCEPT ![c] = q] /\ q.month = m /\ q.start = s /\ q.end = r.end
      BY <2>6, <1>0, <1>2 DEF Request
    <3>2. q.month = k - 1 \/ (q.month = k /\ HasRow(k - 1))
      BY <3>1, <2>1
    <3>3. Competencia(q.end) = q.month /\ \E x \in Days : Follows(x, q.start, q.end)
      BY <3>1, <2>2, <2>3
    <3>4. ~Exists(q.start) /\ cronRun' = "runs"
      BY <3>1, <2>1, <2>6
    <3> HIDE DEF q, m, s
    <3> QED BY <1>5, <2>1, <2>6, <3>1, <3>2, <3>3, <3>4
  <2>7. ~Replaces(c, s)
    BY DEF Replaces, c
  <2> QED BY <1>11, <2>5, <2>6, <2>7 DEF ReadExisting
<1>12. CASE ResolveBilling(c)
  <2>1. /\ cronRun = "runs" /\ (r.month = k - 1 \/ (r.month = k /\ HasRow(k - 1)))
        /\ pc[c] = "bill" /\ UNCHANGED invoices
    BY <1>7, <1>12 DEF ResolveBilling, GenerateStep
  <2>2. /\ Competencia(r.end) = r.month /\ \E p \in Days : Follows(p, r.start, r.end)
        /\ ~Exists(r.start) /\ r.start \in Days /\ r.end \in Days /\ r.start <= r.end
    BY <1>0, <1>2, <2>1 DEF JobReads, HasPeriod, RequestsOK, c, Request
  <2>3. Covering(r.start, r.end) # {}
    BY <1>0, <2>2, SteadilyCovered DEF Undisturbed
  <2>4. PICK n : /\ pc' = [pc EXCEPT ![c] = "write"] /\ UNCHANGED cronRun
                 /\ req' = [req EXCEPT ![c].contract = n]
    BY <1>12, <2>3 DEF ResolveBilling
  <2> DEFINE q == [r EXCEPT !.contract = n]
  <2>5. req' = [req EXCEPT ![c] = q] /\ q.month = r.month /\ q.start = r.start /\ q.end = r.end
    BY <2>4, <1>0, <1>2 DEF Request
  <2>6. cronRun' = "runs" /\ ~Exists(q.start)
    BY <2>1, <2>2, <2>4, <2>5
  <2>7. q.month = k - 1 \/ (q.month = k /\ HasRow(k - 1))
    BY <2>1, <2>5
  <2>8. Competencia(q.end) = q.month /\ \E x \in Days : Follows(x, q.start, q.end)
    BY <2>2, <2>5
  <2> HIDE DEF q
  <2> QED BY <1>5, <2>1, <2>4, <2>5, <2>6, <2>7, <2>8
<1>13. CASE WriteInvoice(c)
  <2>1. /\ r.month = k - 1 \/ (r.month = k /\ HasRow(k - 1))
        /\ pc[c] = "write" /\ Finish(c)
    BY <1>7, <1>13 DEF WriteInvoice, GenerateStep
  <2>2. /\ Competencia(r.end) = r.month /\ ~Exists(r.start)
        /\ r.start \in Days /\ r.end \in Days /\ r.start <= r.end
    BY <1>0, <1>2, <2>1 DEF JobReads, HasPeriod, RequestsOK, c, Request
  <2>3. PICK p \in Days : Follows(p, r.start, r.end)
    BY <1>0, <2>1 DEF JobReads, HasPeriod, c
  <2> PICK row : row = Snapshot(c)
    OBVIOUS
  <2>4. /\ row.status = "PENDING" /\ row.end = r.end
        /\ invoices' = [invoices EXCEPT ![r.start] = row]
    BY <1>13, <2>2 DEF WriteInvoice, Snapshot
  <2>5. row \in InvoiceRow
    BY <1>1, <1>2 DEF Snapshot, InvoiceRow, InvoiceStatus, Request
  <2>6. TableInv' /\ HasRow(Competencia(row.end))' /\ \A n : HasRow(n) => HasRow(n)'
    BY <1>0, <2>2, <2>3, <2>4, <2>5, RowJoins
  <2>7. HasRow(r.month)'
    <3>1. PICK n : n = Competencia(row.end)
      OBVIOUS
    <3>2. HasRow(n)'
      BY <2>6, <3>1, <2>4 DEF HasRow, Competencia
    <3>3. n = r.month
      BY <2>2, <2>4, <3>1
    <3> QED BY <3>2, <3>3
  <2>8. HasRow(k - 1)'
    BY <2>1, <2>6, <2>7
  <2> QED BY <1>6, <2>1, <2>6, <2>8
<1>14. CASE Abort(c)
  <2>1. /\ pc'[c] = "idle" /\ cronRun' = "failed" /\ missed < MaxMissed /\ UNCHANGED invoices
    BY <1>0, <1>14 DEF Abort, c
  <2>2. TableInv' /\ \A n : HasRow(n)' <=> HasRow(n)
    BY <1>0, <2>1, RowsAlone
  <2>3. JobReads'
    BY <2>1 DEF JobReads, HasPeriod, c
  <2>4. NightsLost'
    BY <1>4, <2>1, <2>2
  <2> QED BY <1>3, <2>2, <2>3, <2>4
<1> QED BY <1>8, <1>9, <1>10, <1>11, <1>12, <1>13, <1>14 DEF GenerateStep, c

\* The next day: in the night a month ends, the month before has its row,
\* or the job would have missed every night of that month.
LEMMA SteadyNight ==
  ASSUME SteadyTerms, SteadyInv, NextDay, contracts' = contracts
  PROVE  TableInv' /\ JobReads' /\ NightsLost' /\ Undisturbed'
<1>0. /\ Inv /\ InvoicingTypeOK /\ TableInv /\ JobReads /\ NightsLost /\ Undisturbed
      /\ missed \in Nat /\ MaxMissed \in Nat /\ MaxCycleDay \in Nat /\ cronRun \in CronType
      /\ contracts = InitContracts
  BY InvoicingAssumption, BoundsAreNat
     DEF SteadyInv, Inv, InvoicingTypeOK, CronType, Undisturbed
<1>1. /\ today' = today + 1 /\ today + 1 \in WorkDays /\ cronRun' = "waits" /\ cronRun # "runs"
      /\ cronRun = "waits" /\ ~NothingToBill => missed < MaxMissed
      /\ missed' = (IF cronRun = "done" \/ NothingToBill THEN 0 ELSE missed + 1)
      /\ UNCHANGED <<cycleDay, invoices, pc, req>>
  BY DEF NextDay
<1>2. PICK k : k = Month
  OBVIOUS
<1>3. PICK n : n = DayOfMonth(today)
  OBVIOUS
<1>4. /\ today \in WorkDays /\ today \in Days /\ today \in Int
      /\ k \in 0 .. LastMonth /\ k \in Int /\ k - 1 \in Months /\ k \in Months /\ 3 <= k
      /\ n \in Int
  <2>1. today \in WorkDays /\ today \in Days /\ today \in Int
    BY <1>0, CalendarInts DEF InvoicingTypeOK, ContractsTypeOK
  <2>2. MonthOf[today] \in 0 .. LastMonth /\ LastMonth \in Nat
    BY <2>1, CalendarAssumption
  <2>4. k \in 0 .. LastMonth /\ k \in Int /\ k - 1 \in Months /\ k \in Months /\ 3 <= k
    BY <1>0, <1>2, <2>2 DEF Undisturbed, Month, Months
  <2>5. n \in Int
    <3>1. FirstDay[MonthOf[today]] \in Nat
      <4>1. MonthOf[today] \in 0 .. (LastMonth + 1)
        BY <2>2
      <4> QED BY <4>1, CalendarAssumption
    <3> QED BY <1>3, <2>1, <3>1 DEF DayOfMonth
  <2> QED BY <2>1, <2>4, <2>5
<1>5. ~NothingToBill
  <2>1. Len(contracts) # 0
    <3>1. today <= today
      BY <1>4
    <3> QED BY <1>0, <1>4, <3>1, SteadilyCovered
  <2>2. LastClosedCycle(today, cycleDay) = k - 1 \/ LastClosedCycle(today, cycleDay) = (k + 1) - 1
    BY <1>2, JobMonth DEF Month
  <2>3. (k + 1) - 1 = k
    BY <1>4
  <2> QED BY <1>4, <2>1, <2>2, <2>3 DEF NothingToBill
<1>6. /\ cronRun = "done" => missed' = 0
      /\ cronRun # "done" => missed' = missed + 1 /\ missed < MaxMissed
  BY <1>0, <1>1, <1>5 DEF NightsLost, CronType
<1>7. missed' \in Nat /\ missed' <= MaxMissed
  BY <1>0, <1>6
<1>8. TableInv' /\ \A m : HasRow(m)' <=> HasRow(m)
  BY <1>0, <1>1, RowsAlone
<1>9. HasRow(k - 2) /\ (HasRow(k - 1) \/ n - 1 <= missed) /\ (cronRun = "done" => HasRow(k - 1))
  BY <1>0, <1>2, <1>3 DEF NightsLost, JobReads
<1>10. PICK j : j = MonthOf[today + 1]
  OBVIOUS
<1>11. PICK p : p = DayOfMonth(today + 1)
  OBVIOUS
<1>12. (j = k /\ p = n + 1) \/ (j = k + 1 /\ p = 1 /\ MaxCycleDay <= n)
  BY <1>1, <1>2, <1>3, <1>4, <1>10, <1>11, NextDayOfMonth DEF Month
<1>13. 3 <= j
  BY <1>4, <1>12
<1>14. HasRow(j - 2) /\ (HasRow(j - 1) \/ p - 1 <= missed')
  <2>1. CASE j = k /\ p = n + 1
    <3>1. ~HasRow(k - 1) => p - 1 <= missed'
      <4>1. SUFFICES ASSUME ~HasRow(k - 1) PROVE p - 1 <= missed'
        OBVIOUS
      <4>2. missed' = missed + 1 /\ n - 1 <= missed
        BY <1>6, <1>9, <4>1
      <4> QED BY <2>1, <4>2, <1>0, <1>4
    <3> QED BY <2>1, <3>1, <1>9
  <2>2. CASE j = k + 1 /\ p = 1 /\ MaxCycleDay <= n
    <3>1. HasRow(k - 1)
      <4> SUFFICES ASSUME ~HasRow(k - 1) PROVE FALSE
        OBVIOUS
      <4>1. n - 1 <= missed /\ missed < MaxMissed
        BY <1>6, <1>9
      <4>2. MaxMissed < MaxCycleDay
        BY DEF SteadyTerms
      <4> QED BY <2>2, <4>1, <4>2, <1>0, <1>4
    <3>2. j - 2 = k - 1 /\ p - 1 <= missed'
      BY <2>2, <1>4, <1>7
    <3> QED BY <3>1, <3>2
  <2> QED BY <1>12, <2>1, <2>2
<1>15. NightsLost'
  <2>1. Month' = j /\ DayOfMonth(today)' = p
    BY <1>1, <1>10, <1>11 DEF Month, DayOfMonth
  <2>2. HasRow(j - 2)' /\ (HasRow(j - 1)' \/ p - 1 <= missed')
    BY <1>8, <1>14
  <2>3. HasRow(Month - 2)' /\ (HasRow(Month - 1)' \/ DayOfMonth(today)' - 1 <= missed')
    BY <2>1, <2>2 DEF HasRow
  <2> QED BY <2>3, <1>1, <1>7 DEF NightsLost
<1>16. JobReads'
  <2>1. pc[Cron] = "idle"
    BY <1>0, <1>1 DEF JobReads
  <2> QED BY <2>1, <1>1 DEF JobReads, HasPeriod
<1>17. Undisturbed'
  <2>1. Month' = j
    BY <1>1, <1>10 DEF Month
  <2> QED BY <2>1, <1>0, <1>1, <1>13 DEF Undisturbed
<1> QED BY <1>8, <1>15, <1>16, <1>17

\* The table the customer starts with.
LEMMA SteadyStart ==
  ASSUME Inv, OnCycle(cycleDay, invoices), BilledSteadily(today, cycleDay, invoices),
         contracts = InitContracts, cycleDay \in FirstCycleDays,
         pc = [w \in Workers |-> "idle"], missed = 0, cronRun = "waits"
  PROVE  SteadyInv
<1> PICK D : D = cycleDay
  OBVIOUS
<1>0. D \in CycleDaysAllowed /\ OnCycle(D, invoices) /\ today \in Days
  BY CalendarInts DEF Inv, InvoicingTypeOK, ContractsTypeOK
<1>1. PICK a, b \in Months :
        /\ a + 2 <= MonthOf[today]
        /\ MonthOf[today] <= b + (IF DayOfMonth(today) = 1 THEN 2 ELSE 1)
        /\ \A m \in Months : invoices[PeriodStart(m, D)] # NoInvoice <=> a <= m /\ m <= b
        /\ \A s \in Days : invoices[s].status # "CANCELLED"
  BY DEF BilledSteadily
<1> PICK k : k = Month
  OBVIOUS
<1>2. a \in Int /\ b \in Int /\ 1 <= a /\ b <= LastMonth /\ LastMonth \in Nat /\ k \in Int
  <2>1. MonthOf[today] \in 0 .. LastMonth
    BY <1>0, CalendarAssumption
  <2> QED BY <2>1, BoundsAreNat DEF Months, Month
<1>3. ASSUME NEW s \in Days, Exists(s)
      PROVE  \E m \in Months : /\ s = PeriodStart(m, D) /\ invoices[s].end = PeriodEnd(m, D)
                               /\ a <= m /\ m <= b
  <2>1. PICK m \in Months : s = PeriodStart(m, D) /\ invoices[s].end = PeriodEnd(m, D)
    BY <1>0, <1>3 DEF OnCycle, Exists
  <2> QED BY <2>1, <1>1, <1>3 DEF Exists
<1>4. ASSUME NEW m \in Months, NEW n \in Months, PeriodStart(m, D) < PeriodStart(n, D)
      PROVE  m < n
  <2>1. m \in Int /\ n \in Int
    BY DEF Months
  <2>2. ~(n < m)
    <3> SUFFICES ASSUME n < m PROVE FALSE
      OBVIOUS
    <3>1. /\ PeriodStart(n, D) <= PeriodEnd(n, D) /\ PeriodStart(n, D) \in Int
          /\ PeriodEnd(n, D) \in Int /\ PeriodStart(m, D) \in Int
      BY <1>0, PeriodInCalendar, DayIsInt
    <3>2. PeriodEnd(n, D) < PeriodStart(m, D)
      BY <1>0, PeriodsOrdered
    <3> QED BY <1>4, <3>1, <3>2
  <2>3. n # m
    <3>1. PeriodStart(m, D) \in Int
      BY <1>0, PeriodInCalendar, DayIsInt
    <3> QED BY <1>4, <3>1
  <2> QED BY <2>1, <2>2, <2>3
<1>5. ASSUME NEW n \in Months, a <= n, n <= b PROVE HasRow(n)
  <2>1. PeriodStart(n, D) \in Days /\ Exists(PeriodStart(n, D))
    BY <1>0, <1>1, <1>5, PeriodInCalendar DEF Exists
  <2>2. PICK m \in Months : /\ PeriodStart(n, D) = PeriodStart(m, D)
                            /\ invoices[PeriodStart(n, D)].end = PeriodEnd(m, D)
    BY <1>3, <2>1
  <2>3. m = n
    <3>1. m \in Int /\ n \in Int
      BY DEF Months
    <3>2. \A x, y \in Months : x < y => PeriodStart(x, D) # PeriodStart(y, D)
      <4> SUFFICES ASSUME NEW x \in Months, NEW y \in Months, x < y
                   PROVE  PeriodStart(x, D) # PeriodStart(y, D)
        OBVIOUS
      <4>1. PeriodEnd(x, D) < PeriodStart(y, D)
        BY <1>0, PeriodsOrdered
      <4>2. /\ PeriodStart(x, D) <= PeriodEnd(x, D) /\ PeriodStart(x, D) \in Int
            /\ PeriodEnd(x, D) \in Int /\ PeriodStart(y, D) \in Int
        BY <1>0, PeriodInCalendar, DayIsInt
      <4> QED BY <4>1, <4>2
    <3> QED BY <2>2, <3>1, <3>2
  <2>4. Competencia(PeriodEnd(n, D)) = n
    BY <1>0, CompetenciaOfPeriod
  <2> QED BY <2>1, <2>2, <2>3, <2>4 DEF HasRow
<1>6. AllLive
  BY <1>1 DEF AllLive, Live
<1>7. Tiled
  <2> SUFFICES ASSUME NEW s \in Days, NEW t \in Days, Exists(s), Exists(t), s < t
               PROVE  invoices[s].end < t /\ Exists(invoices[s].end + 1)
    BY DEF Tiled
  <2>1. PICK m \in Months : /\ s = PeriodStart(m, D) /\ invoices[s].end = PeriodEnd(m, D)
                            /\ a <= m /\ m <= b
    BY <1>3
  <2>2. PICK n \in Months : t = PeriodStart(n, D) /\ n <= b
    BY <1>3
  <2>3. m < n
    BY <1>4, <2>1, <2>2
  <2>4. invoices[s].end < t
    BY <1>0, <2>1, <2>2, <2>3, PeriodsOrdered
  <2>5. m + 1 \in Months /\ a <= m + 1 /\ m + 1 <= b /\ (m + 1) - 1 = m
    BY <1>2, <2>1, <2>2, <2>3 DEF Months
  <2>6. PICK q : q = m + 1
    OBVIOUS
  <2>7. PeriodStart(q, D) = PeriodEnd(q - 1, D) + 1 /\ Exists(PeriodStart(q, D))
    BY <1>0, <1>1, <2>5, <2>6, PeriodsTile DEF Exists
  <2> QED BY <2>1, <2>4, <2>5, <2>6, <2>7
<1>8. Unskipped
  <2> SUFFICES ASSUME NEW s \in Days, NEW t \in Days, Exists(s), Exists(t),
                      NEW n \in Competencia(invoices[s].end) .. Competencia(invoices[t].end)
               PROVE  HasRow(n)
    BY DEF Unskipped
  <2>1. PICK l \in Months : invoices[s].end = PeriodEnd(l, D) /\ a <= l
    BY <1>3
  <2>2. PICK m \in Months : invoices[t].end = PeriodEnd(m, D) /\ m <= b
    BY <1>3
  <2>3. Competencia(invoices[s].end) = l /\ Competencia(invoices[t].end) = m
    BY <1>0, <2>1, <2>2, CompetenciaOfPeriod
  <2>4. n \in Months /\ a <= n /\ n <= b
    BY <1>2, <2>1, <2>2, <2>3 DEF Months
  <2> QED BY <1>5, <2>4
<1>9. HasRow(k - 2) /\ (HasRow(k - 1) \/ DayOfMonth(today) = 1)
  <2>1. k - 2 \in Months /\ a <= k - 2 /\ k - 2 <= b
    BY <1>1, <1>2 DEF Months, Month
  <2>2. DayOfMonth(today) # 1 => k - 1 \in Months /\ a <= k - 1 /\ k - 1 <= b
    BY <1>1, <1>2 DEF Months, Month
  <2> QED BY <1>5, <2>1, <2>2
<1>10. NightsLost
  <2>1. DayOfMonth(today) = 1 => DayOfMonth(today) - 1 <= 0
    OBVIOUS
  <2> QED BY <1>9, <2>1, InvoicingAssumption DEF NightsLost
<1>11. JobReads
  <2>1. pc[Cron] = "idle"
    BY DEF Workers
  <2> QED BY <2>1 DEF JobReads, HasPeriod
<1>12. Undisturbed
  <2>1. \A w \in Staff : pc[w] = "idle"
    BY DEF Workers
  <2>2. 3 <= Month
    BY <1>1, <1>2 DEF Month
  <2> QED BY <2>1, <2>2 DEF Undisturbed
<1> QED BY <1>6, <1>7, <1>8, <1>10, <1>11, <1>12 DEF SteadyInv, TableInv

LEMMA SteadyStep ==
  ASSUME SteadyTerms, SteadyInv, [Next]_vars, \A w \in Staff : pc'[w] = "idle"
  PROVE  SteadyInv'
<1>0. Inv /\ TableInv /\ JobReads /\ NightsLost /\ Undisturbed
  BY DEF SteadyInv
<1>1. Inv'
  BY <1>0, StepInv
<1>2. contracts' = contracts
  BY <1>0, SteadySteps
<1>3. CASE (CronStart \/ GenerateStep(Cron) \/ Abort(Cron)) /\ UNCHANGED today
  BY <1>1, <1>2, <1>3, SteadyJob DEF SteadyInv
<1>4. CASE NextDay
  BY <1>1, <1>2, <1>4, SteadyNight DEF SteadyInv
<1>5. ASSUME UNCHANGED <<today, invoices, pc, req, missed, cronRun>>,
             cycleDay' \in CycleDays \cup FirstCycleDays
      PROVE  SteadyInv'
  <2>1. /\ TableInv' /\ \A n : HasRow(n)' <=> HasRow(n)
        /\ \A p, s, e : Follows(p, s, e)' <=> Follows(p, s, e)
    BY <1>0, <1>5, RowsAlone
  <2>2. Month' = Month /\ DayOfMonth(today)' = DayOfMonth(today)
    BY <1>5 DEF Month, DayOfMonth
  <2>3. \A n : n = Month - 1 \/ n = Month - 2 => (HasRow(n)' <=> HasRow(n))
    BY <2>1
  <2>4. HasRow(Month - 1)' <=> HasRow(Month - 1)
    BY <1>5 DEF HasRow, Month, Exists, Competencia
  <2>5. HasRow(Month - 2)' <=> HasRow(Month - 2)
    BY <1>5 DEF HasRow, Month, Exists, Competencia
  <2>6. NightsLost'
    BY <1>0, <1>5, <2>2, <2>4, <2>5 DEF NightsLost
  <2>7. JobReads'
    <3>1. \A p : Follows(p, req[Cron].start, req[Cron].end)' <=> Follows(p, req[Cron].start, req[Cron].end)
      BY <1>5 DEF Follows, Exists, Competencia
    <3> QED BY <1>0, <1>5, <2>2, <2>4, <3>1 DEF JobReads, Exists, Competencia
  <2>8. Undisturbed'
    BY <1>0, <1>2, <1>5, <2>2 DEF Undisturbed
  <2> QED BY <1>1, <2>1, <2>6, <2>7, <2>8 DEF SteadyInv
<1>6. CASE SetCycleDay /\ UNCHANGED today
  BY <1>5, <1>6 DEF SetCycleDay, NotByCron
<1>7. CASE UNCHANGED <<today, invoiceVars>>
  BY <1>0, <1>5, <1>7 DEF invoiceVars, Undisturbed
<1> QED BY <1>0, <1>3, <1>4, <1>6, <1>7, SteadySteps

(* "instead of overlapping it or leaving days unbilled" (periodFor): no day *)
(* from one live invoice to a later one is without an invoice.              *)
NoDayBetween ==
  \A s, t \in Days : Live(s) /\ Live(t) /\ s < t =>
    \A d \in s .. (t - 1) : \E u \in Days : Live(u) /\ u <= d /\ d <= invoices[u].end

LEMMA SteadyBills ==
  ASSUME SteadyInv
  PROVE  LivePeriodsDisjoint /\ NoUnbilledDays /\ NoDayBetween /\ HasRow(Month - 2)
<1>1. InvoicingTypeOK /\ OnlyClosedPeriods /\ TableInv /\ Tiled /\ HasRow(Month - 2)
  BY DEF SteadyInv, Inv, TableInv, NightsLost
<1>2. LivePeriodsDisjoint
  BY <1>1 DEF LivePeriodsDisjoint, Tiled, Live
<1>3. NoDayBetween
  BY <1>1, TiledCovers DEF NoDayBetween, Live
<1>4. NoUnbilledDays
  <2> SUFFICES ASSUME NEW s \in Days, NEW t \in Days, Live(s), Live(t),
                      NEW d \in (invoices[s].end + 1) .. (t - 1)
               PROVE  \E u \in Days : Live(u) /\ u <= d /\ d <= invoices[u].end
    BY DEF NoUnbilledDays
  <2>1. /\ s \in Int /\ t \in Int /\ invoices[s].end \in Int /\ s <= invoices[s].end
        /\ Exists(s)
    BY <1>1, EndMonths DEF OnlyClosedPeriods, Live
  <2>2. s < t /\ d \in s .. (t - 1)
    BY <2>1
  <2> QED BY <1>3, <2>2 DEF NoDayBetween
<1> QED BY <1>1, <1>2, <1>3, <1>4

(* However often the cycle day of a steady customer changes, and whenever   *)
(* in the job's run, no day is billed twice, no day between two invoices is *)
(* left unbilled, and every month but the last has its invoice.             *)
THEOREM ChangingCycleDay ==
  SteadyHistory =>
    (Spec => [](LivePeriodsDisjoint /\ NoUnbilledDays /\ NoDayBetween /\ HasRow(Month - 2)))
<1> SUFFICES ASSUME SteadyHistory
             PROVE  Spec => [](LivePeriodsDisjoint /\ NoUnbilledDays /\ NoDayBetween /\ HasRow(Month - 2))
  OBVIOUS
<1>1. SteadyTerms /\ StaffMay \subseteq {"setCycleDay"}
  BY DEF SteadyHistory
<1>2. InvoicingInit => SteadyInv
  <2> SUFFICES ASSUME InvoicingInit PROVE SteadyInv
    OBVIOUS
  <2>1. OnCycle(cycleDay, invoices) /\ BilledSteadily(today, cycleDay, invoices)
    BY InvoicingAssumption DEF InvoicingInit, SteadyHistory
  <2>2. /\ contracts = InitContracts /\ cycleDay \in FirstCycleDays
        /\ pc = [w \in Workers |-> "idle"] /\ missed = 0 /\ cronRun = "waits"
    BY DEF InvoicingInit, ContractsInit
  <2> QED BY <2>1, <2>2, InitInv, SteadyStart
<1>3. SteadyInv /\ [Next]_vars => SteadyInv'
  <2> SUFFICES ASSUME SteadyInv, [Next]_vars PROVE SteadyInv'
    OBVIOUS
  <2>1. \A w \in Staff : pc'[w] = "idle"
    BY <1>1, StaffStayIdle DEF SteadyInv
  <2> QED BY <1>1, <2>1, SteadyStep
<1>4. SteadyInv => LivePeriodsDisjoint /\ NoUnbilledDays /\ NoDayBetween /\ HasRow(Month - 2)
  BY SteadyBills
<1> QED BY <1>2, <1>3, <1>4, PTL DEF Spec
=============================================================================
