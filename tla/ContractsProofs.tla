-------------------------- MODULE ContractsProofs --------------------------
(* Proofs about what billing stands on: what the calendar guarantees for    *)
(* every calendar and cycle day (BillingCycle,                              *)
(* src/api/src/common/billing-cycle.util.ts), and what the contract         *)
(* requests do (Contracts, src/api/src/contracts/contracts.service.ts).     *)
EXTENDS Contracts, SequenceTheorems, TLAPS

(* The calendar: the periods of one cycle day tile time, each is named by   *)
(* its last day's month, the open one contains the day it is asked about,   *)
(* and an invoice falls due after its period.                               *)
LEMMA FirstDayInOrder ==
  ASSUME NEW m \in 0 .. (LastMonth + 1), NEW n \in 0 .. (LastMonth + 1), m <= n
  PROVE  FirstDay[m] \in Nat /\ FirstDay[n] \in Nat /\ FirstDay[m] <= FirstDay[n]
<1>1. FirstDay[m] \in Nat /\ FirstDay[n] \in Nat
  BY CalendarAssumption
<1>2. CASE m = n
  BY <1>1, <1>2
<1>3. CASE m < n
  BY <1>1, <1>3, CalendarAssumption
<1> QED BY <1>2, <1>3

LEMMA DayIsInt == ASSUME NEW d \in Days PROVE d \in Int
BY DEF Days

LEMMA BoundsAreNat == LastMonth \in Nat /\ MaxCycleDay \in Nat
BY CalendarAssumption

(* "consecutive periods touch with no gap or overlap": one period starts    *)
(* right after the one before it ends.                                      *)
THEOREM PeriodsTile ==
  ASSUME NEW m \in Months, NEW D \in CycleDaysAllowed
  PROVE  PeriodStart(m, D) = PeriodEnd(m - 1, D) + 1
<1>1. (m - 1) + 1 = m /\ D \in Int /\ m - 1 \in 0 .. (LastMonth + 1) /\ m \in 0 .. (LastMonth + 1)
  BY CalendarAssumption DEF Months, CycleDaysAllowed
<1>2. FirstDay[m] \in Nat /\ FirstDay[m - 1] \in Nat /\ FirstDay[(m - 1) + 1] = FirstDay[m]
  BY <1>1, CalendarAssumption
<1> QED
  BY <1>1, <1>2 DEF PeriodStart, PeriodEnd

(* A period of the model lies on the calendar and is not empty.             *)
THEOREM PeriodInCalendar ==
  ASSUME NEW m \in Months, NEW D \in CycleDaysAllowed
  PROVE  /\ PeriodStart(m, D) \in Days
         /\ PeriodEnd(m, D) \in Days
         /\ PeriodStart(m, D) <= PeriodEnd(m, D)
<1>1. /\ m \in Int /\ D \in Int /\ m - 1 \in 0 .. LastMonth /\ m \in 0 .. LastMonth
      /\ m + 1 \in 0 .. (LastMonth + 1) /\ LastMonth + 1 \in 0 .. (LastMonth + 1)
      /\ 0 \in 0 .. (LastMonth + 1)
  BY CalendarAssumption DEF Months, CycleDaysAllowed
<1>2. /\ FirstDay[m - 1] \in Nat /\ FirstDay[m] \in Nat /\ FirstDay[m + 1] \in Nat
      /\ FirstDay[0] \in Nat /\ FirstDay[LastMonth + 1] \in Nat
  BY <1>1, CalendarAssumption
<1>3. FirstDay[0] <= FirstDay[m - 1] /\ FirstDay[m + 1] <= FirstDay[LastMonth + 1]
  <2>1. FirstDay[0] <= FirstDay[m - 1]
    <3>1. 0 <= m - 1 /\ m - 1 \in 0 .. (LastMonth + 1)
      BY <1>1, CalendarAssumption
    <3> QED BY <3>1, <1>1, FirstDayInOrder
  <2>2. FirstDay[m + 1] <= FirstDay[LastMonth + 1]
    <3>1. m + 1 <= LastMonth + 1
      BY <1>1, CalendarAssumption
    <3> QED BY <3>1, <1>1, FirstDayInOrder
  <2> QED BY <2>1, <2>2
<1>4. /\ FirstDay[m] - FirstDay[m - 1] >= MaxCycleDay
      /\ FirstDay[m + 1] - FirstDay[m] >= MaxCycleDay
  <2>1. FirstDay[(m - 1) + 1] - FirstDay[m - 1] >= MaxCycleDay
    BY <1>1, CalendarAssumption
  <2>2. (m - 1) + 1 = m
    BY <1>1
  <2> QED BY <2>1, <2>2, <1>1, CalendarAssumption
<1>5. MaxCycleDay \in Nat /\ 1 <= D /\ D <= MaxCycleDay
  BY CalendarAssumption DEF CycleDaysAllowed
<1> QED
  BY <1>1, <1>2, <1>3, <1>4, <1>5 DEF PeriodStart, PeriodEnd, Days

(* An earlier period of the cycle ends before a later one starts.           *)
THEOREM PeriodsOrdered ==
  ASSUME NEW m \in Months, NEW n \in Months, NEW D \in CycleDaysAllowed, m < n
  PROVE  PeriodEnd(m, D) < PeriodStart(n, D)
<1>1. /\ m \in 0 .. (LastMonth + 1) /\ m + 1 \in 0 .. (LastMonth + 1)
      /\ n \in 0 .. (LastMonth + 1) /\ n - 1 \in 0 .. (LastMonth + 1)
  BY CalendarAssumption DEF Months
<1>2. FirstDay[m + 1] <= FirstDay[n] /\ FirstDay[m] <= FirstDay[n - 1]
  <2>1. m + 1 <= n /\ m <= n - 1
    BY DEF Months
  <2> QED BY <1>1, <2>1, FirstDayInOrder
<1>3. /\ FirstDay[m] \in Nat /\ FirstDay[m + 1] \in Nat
      /\ FirstDay[n] \in Nat /\ FirstDay[n - 1] \in Nat /\ D \in Int
  BY <1>1, CalendarAssumption DEF CycleDaysAllowed
<1> QED
  BY <1>2, <1>3 DEF PeriodStart, PeriodEnd

(* A day of the calendar belongs to the one month it lies in.               *)
LEMMA MonthUnique ==
  ASSUME NEW d \in Days, NEW m \in 0 .. LastMonth, FirstDay[m] <= d, d < FirstDay[m + 1]
  PROVE  MonthOf[d] = m
<1>1. MonthOf[d] \in 0 .. LastMonth /\ FirstDay[MonthOf[d]] <= d /\ d < FirstDay[MonthOf[d] + 1]
  BY CalendarAssumption
<1> DEFINE k == MonthOf[d]
<1>2. /\ k \in 0 .. (LastMonth + 1) /\ k + 1 \in 0 .. (LastMonth + 1)
      /\ m \in 0 .. (LastMonth + 1) /\ m + 1 \in 0 .. (LastMonth + 1)
      /\ LastMonth \in Nat /\ d \in Int
  BY <1>1, DayIsInt, BoundsAreNat
<1>3. /\ FirstDay[k] \in Nat /\ FirstDay[k + 1] \in Nat
      /\ FirstDay[m] \in Nat /\ FirstDay[m + 1] \in Nat
  BY <1>2, CalendarAssumption
<1>4. ~(k < m)
  <2> SUFFICES ASSUME k < m PROVE FALSE
    OBVIOUS
  <2>1. k + 1 = m \/ k + 1 < m
    BY <1>2
  <2>2. FirstDay[k + 1] <= FirstDay[m]
    <3>1. k + 1 <= m
      BY <1>2, <2>1
    <3> QED BY <3>1, <1>2, FirstDayInOrder
  <2> QED BY <2>2, <1>1, <1>2, <1>3
<1>5. ~(m < k)
  <2> SUFFICES ASSUME m < k PROVE FALSE
    OBVIOUS
  <2>1. m + 1 = k \/ m + 1 < k
    BY <1>2
  <2>2. FirstDay[m + 1] <= FirstDay[k]
    <3>1. m + 1 <= k
      BY <1>2, <2>1
    <3> QED BY <3>1, <1>2, FirstDayInOrder
  <2> QED BY <2>2, <1>1, <1>2, <1>3
<1> QED BY <1>2, <1>4, <1>5

(* "A period is named by the month its LAST day falls in": competenciaKey   *)
(* gives back the month a period was built for.                             *)
THEOREM CompetenciaOfPeriod ==
  ASSUME NEW m \in Months, NEW D \in CycleDaysAllowed
  PROVE  Competencia(PeriodEnd(m, D)) = m
<1>1. PeriodEnd(m, D) \in Days /\ m \in 0 .. LastMonth /\ m + 1 \in 0 .. (LastMonth + 1)
  BY PeriodInCalendar, CalendarAssumption DEF Months
<1>2. FirstDay[m] \in Nat /\ FirstDay[m + 1] \in Nat /\ FirstDay[m + 1] - FirstDay[m] >= MaxCycleDay
  BY <1>1, CalendarAssumption
<1>3. MaxCycleDay \in Nat /\ D \in Int /\ 1 <= D /\ D <= MaxCycleDay
  BY CalendarAssumption DEF CycleDaysAllowed
<1>4. FirstDay[m] <= PeriodEnd(m, D) /\ PeriodEnd(m, D) < FirstDay[m + 1]
  BY <1>1, <1>2, <1>3 DEF PeriodEnd
<1> QED BY <1>1, <1>4, MonthUnique DEF Competencia

(* cycleContaining: the competencia it names is the one whose period holds  *)
(* the day, for a day whose cycle is on the calendar.                       *)
THEOREM CycleContainingIsRight ==
  ASSUME NEW d \in Days, NEW D \in CycleDaysAllowed, CycleContaining(d, D) \in Months
  PROVE  /\ PeriodStart(CycleContaining(d, D), D) <= d
         /\ d <= PeriodEnd(CycleContaining(d, D), D)
<1> DEFINE k == MonthOf[d]
<1>1. k \in 0 .. LastMonth /\ FirstDay[k] <= d /\ d < FirstDay[k + 1]
  BY CalendarAssumption
<1>2. /\ k \in 0 .. (LastMonth + 1) /\ k + 1 \in 0 .. (LastMonth + 1)
      /\ k \in Int /\ d \in Int /\ D \in Int /\ 1 <= D /\ (k + 1) - 1 = k
  BY <1>1, DayIsInt, BoundsAreNat DEF CycleDaysAllowed
<1>3. FirstDay[k] \in Nat /\ FirstDay[k + 1] \in Nat /\ FirstDay[(k + 1) - 1] = FirstDay[k]
  BY <1>2, CalendarAssumption
<1>4. CASE D > 1 /\ DayOfMonth(d) >= D
  <2>1. CycleContaining(d, D) = k + 1
    BY <1>4 DEF CycleContaining
  <2>2. d - FirstDay[k] + 1 >= D
    BY <1>4 DEF DayOfMonth
  <2> QED
    BY <2>1, <2>2, <1>1, <1>2, <1>3, <1>4 DEF PeriodStart, PeriodEnd
<1>5. CASE ~(D > 1 /\ DayOfMonth(d) >= D)
  <2>1. CycleContaining(d, D) = k
    BY <1>5 DEF CycleContaining
  <2>2. D <= 1 \/ d - FirstDay[k] + 1 < D
    BY <1>5, <1>2, <1>3 DEF DayOfMonth
  <2>3. k \in Months /\ k - 1 \in 0 .. (LastMonth + 1)
    BY <2>1, <1>1, BoundsAreNat DEF Months
  <2>4. FirstDay[k - 1] \in Nat /\ FirstDay[k] - FirstDay[k - 1] >= MaxCycleDay
    <3>1. k - 1 \in 0 .. LastMonth /\ (k - 1) + 1 = k
      BY <2>3, <1>1, BoundsAreNat DEF Months
    <3> QED BY <3>1, <2>3, CalendarAssumption
  <2>5. D <= MaxCycleDay /\ MaxCycleDay \in Nat
    BY CalendarAssumption DEF CycleDaysAllowed
  <2> QED
    BY <2>1, <2>2, <2>4, <2>5, <1>1, <1>2, <1>3 DEF PeriodStart, PeriodEnd
<1> QED BY <1>4, <1>5

(* lastClosedCycle: the period the nightly job bills has closed before      *)
(* today, and the one after it has not.                                     *)
THEOREM LastClosedCycleIsRight ==
  ASSUME NEW d \in Days, NEW D \in CycleDaysAllowed, CycleContaining(d, D) \in Months
  PROVE  /\ PeriodEnd(LastClosedCycle(d, D), D) < d
         /\ d <= PeriodEnd(LastClosedCycle(d, D) + 1, D)
<1> DEFINE m == CycleContaining(d, D)
<1>1. /\ PeriodStart(m, D) = PeriodEnd(m - 1, D) + 1
      /\ PeriodStart(m, D) \in Days /\ m \in Int
  BY PeriodsTile, PeriodInCalendar DEF Months
<1>2. PeriodStart(m, D) <= d /\ d <= PeriodEnd(m, D)
  BY CycleContainingIsRight
<1>3. /\ m - 1 \in 0 .. (LastMonth + 1) /\ (m - 1) + 1 \in 0 .. (LastMonth + 1)
      /\ D \in Int /\ d \in Int /\ (m - 1) + 1 = m
  BY <1>1, DayIsInt, BoundsAreNat DEF Months, CycleDaysAllowed
<1>4. FirstDay[m - 1] \in Nat /\ FirstDay[(m - 1) + 1] \in Nat
  BY <1>3, CalendarAssumption
<1>5. PeriodEnd(m - 1, D) \in Int
  BY <1>3, <1>4 DEF PeriodEnd
<1> QED BY <1>1, <1>2, <1>3, <1>5 DEF LastClosedCycle

(* dueDateFor: "The due date is the first billingDay AFTER the period       *)
(* closes": it is later than the period and no later than the next month.   *)
THEOREM DueDateAfterPeriod ==
  ASSUME NEW end \in Days, NEW billingDay \in Nat, billingDay >= 1,
         MonthOf[end] < LastMonth
  PROVE  /\ DueDate(end, billingDay) > end
         /\ DueDate(end, billingDay) < FirstDay[MonthOf[end] + 2]
<1> DEFINE k == MonthOf[end]
<1>1. k \in 0 .. LastMonth /\ FirstDay[k] <= end /\ end < FirstDay[k + 1]
  BY CalendarAssumption
<1>2. /\ k + 1 \in 0 .. LastMonth /\ k \in 0 .. (LastMonth + 1) /\ k + 1 \in 0 .. (LastMonth + 1)
      /\ k + 2 \in 0 .. (LastMonth + 1) /\ (k + 1) + 1 = k + 2 /\ end \in Int
  BY <1>1, DayIsInt, BoundsAreNat
<1>3. FirstDay[k] \in Nat /\ FirstDay[k + 1] \in Nat /\ FirstDay[k + 2] \in Nat
  BY <1>2, CalendarAssumption
<1>4. FirstDay[k] < FirstDay[k + 1] /\ FirstDay[k + 1] < FirstDay[k + 2]
  <2>1. k < k + 1 /\ k + 1 < k + 2
    BY <1>2
  <2> QED BY <1>2, <2>1, CalendarAssumption
<1>5. FirstDay[(k + 1) + 1] = FirstDay[k + 2]
  BY <1>2
<1>6. /\ BillingDayIn(k, billingDay) \in Int /\ BillingDayIn(k, billingDay) < FirstDay[k + 1]
      /\ BillingDayIn(k + 1, billingDay) \in Int
      /\ BillingDayIn(k + 1, billingDay) >= FirstDay[k + 1]
      /\ BillingDayIn(k + 1, billingDay) < FirstDay[k + 2]
  BY <1>3, <1>4, <1>5 DEF BillingDayIn, MonthLength
<1> QED BY <1>1, <1>2, <1>3, <1>4, <1>6 DEF DueDate
-----------------------------------------------------------------------------
(* The contracts.                                                           *)
LEMMA CalendarInts ==
  /\ Days \subseteq Int
  /\ WorkDays \subseteq Days
  /\ Open \in Int
  /\ \A d \in Days : 0 <= d /\ d < Open
<1>1. /\ LastMonth \in Nat \ {0} /\ 0 \in 0 .. (LastMonth + 1) /\ 1 \in 0 .. (LastMonth + 1)
      /\ LastMonth + 1 \in 0 .. (LastMonth + 1)
  BY CalendarAssumption
<1>2. FirstDay[0] \in Nat /\ FirstDay[1] \in Nat /\ FirstDay[LastMonth + 1] \in Nat
  BY <1>1, CalendarAssumption
<1>3. FirstDay[0] < FirstDay[1]
  BY <1>1, CalendarAssumption
<1> QED BY <1>1, <1>2, <1>3 DEF Days, WorkDays, Open

LEMMA KeepIsNoDay == Keep \notin Days /\ Keep \notin Days \cup {Open}
<1>1. \A d \in Days : 0 <= d /\ d < Open
  BY CalendarInts
<1>2. Days \subseteq Int /\ Open \in Int
  BY CalendarInts
<1>3. 0 <= Open
  <2>1. FirstToday \in Days
    BY ContractsAssumption, CalendarInts
  <2> QED BY <2>1, <1>1, <1>2
<1> QED BY <1>1, <1>2, <1>3 DEF Keep

(* Rewriting one row of the table leaves the others and the length alone.   *)
LEMMA RowUpdate ==
  ASSUME NEW S, NEW table \in Seq(S), NEW c \in 1 .. Len(table), NEW row \in S
  PROVE  /\ [table EXCEPT ![c] = row] \in Seq(S)
         /\ Len([table EXCEPT ![c] = row]) = Len(table)
         /\ \A d \in 1 .. Len(table) :
              [table EXCEPT ![c] = row][d] = IF d = c THEN row ELSE table[d]
BY ExceptSeq

LEMMA IdleRequestType == IdleRequest \in ContractRequest
BY DEF IdleRequest, ContractRequest

(* Type correctness of every history of contract requests.                  *)
LEMMA ContractsInitType == ContractsInit /\ today = FirstToday => ContractsTypeOK
BY ContractsAssumption, IdleRequestType DEF ContractsInit, ContractsTypeOK, IdleRequest

LEMMA CreateType ==
  ASSUME ContractsTypeOK, NEW o \in ContractOps, CreateContract(o), UNCHANGED today
  PROVE  ContractsTypeOK'
<1> USE DEF ContractsTypeOK
<1>1. PICK s \in ContractDates, e \in ContractDates \cup {Open} :
        \/ cop' = [cop EXCEPT ![o] = [pc |-> "insert", target |-> 0, start |-> s,
                                      end |-> e, seenEnd |-> Open]]
        \/ \E a \in ActiveContracts :
             cop' = [cop EXCEPT ![o] = [pc |-> "expire", target |-> a, start |-> s,
                                        end |-> e, seenEnd |-> contracts[a].end]]
  BY DEF CreateContract
<1>2. /\ s \in Days /\ e \in Days \cup {Open} /\ s # Keep /\ e # Keep
      /\ Open \in Days \cup {Open}
  BY ContractsAssumption, KeepIsNoDay
<1>3. UNCHANGED contracts
  BY DEF CreateContract
<1>4. CASE cop' = [cop EXCEPT ![o] = [pc |-> "insert", target |-> 0, start |-> s,
                                      end |-> e, seenEnd |-> Open]]
  <2>1. [pc |-> "insert", target |-> 0, start |-> s, end |-> e, seenEnd |-> Open]
          \in ContractRequest
    BY <1>2 DEF ContractRequest
  <2> QED BY <1>2, <1>3, <1>4, <2>1
<1>5. CASE \E a \in ActiveContracts :
             cop' = [cop EXCEPT ![o] = [pc |-> "expire", target |-> a, start |-> s,
                                        end |-> e, seenEnd |-> contracts[a].end]]
  <2>1. PICK a \in ActiveContracts :
             cop' = [cop EXCEPT ![o] = [pc |-> "expire", target |-> a, start |-> s,
                                        end |-> e, seenEnd |-> contracts[a].end]]
    BY <1>5
  <2>2. a \in 1 .. Len(contracts) /\ contracts[a].end \in Days \cup {Open}
    <3>1. a \in 1 .. Len(contracts) /\ contracts \in Seq(ContractRow)
      BY <2>1 DEF ActiveContracts
    <3>2. contracts[a] \in ContractRow
      BY <3>1, ElementOfSeq
    <3> QED BY <3>1, <3>2 DEF ContractRow
  <2>3. [pc |-> "expire", target |-> a, start |-> s, end |-> e,
         seenEnd |-> contracts[a].end] \in ContractRequest
    BY <1>2, <2>2 DEF ContractRequest
  <2> QED BY <1>2, <1>3, <2>1, <2>2, <2>3
<1> QED BY <1>1, <1>4, <1>5

LEMMA RewriteType ==
  ASSUME ContractsTypeOK, NEW o \in ContractOps, UNCHANGED today,
         NEW c \in 1 .. Len(contracts), NEW row \in ContractRow,
         contracts' = [contracts EXCEPT ![c] = row],
         NEW r \in ContractRequest, r.pc \in {"idle", "insert"}, cop' = [cop EXCEPT ![o] = r],
         r.pc = "insert" => r.start # Keep /\ r.end # Keep
  PROVE  ContractsTypeOK'
<1> USE DEF ContractsTypeOK
<1>1. contracts' \in Seq(ContractRow) /\ Len(contracts') = Len(contracts)
  BY RowUpdate
<1>2. cop' \in [ContractOps -> ContractRequest] /\ today' \in WorkDays
  OBVIOUS
<1>3. ASSUME NEW p \in ContractOps
      PROVE  /\ cop'[p].pc \in {"expire", "edit", "cancel"} => cop'[p].target \in 1 .. Len(contracts')
             /\ cop'[p].pc \in {"expire", "insert"} => cop'[p].start # Keep /\ cop'[p].end # Keep
  <2>1. cop'[p] = IF p = o THEN r ELSE cop[p]
    OBVIOUS
  <2>2. CASE p = o
    BY <2>1, <2>2
  <2>3. CASE p # o
    BY <1>1, <2>1, <2>3
  <2> QED BY <2>2, <2>3
<1> QED BY <1>1, <1>2, <1>3

LEMMA ExpireType ==
  ASSUME ContractsTypeOK, NEW o \in ContractOps, ExpireContract(o), UNCHANGED today
  PROVE  ContractsTypeOK'
<1> DEFINE c == cop[o].target
           row == [contracts[c] EXCEPT !.status = "EXPIRED", !.end = ExpiredEnd(o)]
           r == [cop[o] EXCEPT !.pc = "insert"]
<1>1. cop[o] \in ContractRequest /\ c \in 1 .. Len(contracts) /\ cop[o].start # Keep /\ cop[o].end # Keep
  BY DEF ContractsTypeOK, ExpireContract
<1>2. contracts[c] \in ContractRow
  BY <1>1, ElementOfSeq DEF ContractsTypeOK
<1>3. ExpiredEnd(o) \in Days \cup {Open}
  BY <1>1 DEF ContractRequest, ExpiredEnd
<1>4. row \in ContractRow
  BY <1>2, <1>3 DEF ContractRow, ContractStatus
<1>5. r \in ContractRequest /\ r.pc = "insert" /\ r.start # Keep /\ r.end # Keep
  BY <1>1 DEF ContractRequest
<1>6. contracts' = [contracts EXCEPT ![c] = row] /\ cop' = [cop EXCEPT ![o] = r]
  BY DEF ExpireContract, ContractsTypeOK
<1> HIDE DEF c, row, r
<1> QED BY <1>1, <1>4, <1>5, <1>6, RewriteType

LEMMA InsertType ==
  ASSUME ContractsTypeOK, NEW o \in ContractOps, InsertContract(o), UNCHANGED today
  PROVE  ContractsTypeOK'
<1> DEFINE row == [start |-> cop[o].start, end |-> cop[o].end, status |-> "ACTIVE"]
<1>1. cop[o] \in ContractRequest /\ cop[o].start # Keep /\ cop[o].end # Keep
  BY DEF ContractsTypeOK, InsertContract
<1>2. row \in ContractRow
  BY <1>1 DEF ContractRequest, ContractRow, ContractStatus
<1>3. contracts' = Append(contracts, row) /\ cop' = [cop EXCEPT ![o] = IdleRequest]
  BY DEF InsertContract
<1> HIDE DEF row
<1>4. contracts' \in Seq(ContractRow) /\ Len(contracts') = Len(contracts) + 1 /\ Len(contracts) \in Nat
  BY <1>2, <1>3, AppendProperties, LenProperties DEF ContractsTypeOK
<1>5. cop' \in [ContractOps -> ContractRequest] /\ today' \in WorkDays
  BY <1>3, IdleRequestType DEF ContractsTypeOK
<1>6. ASSUME NEW p \in ContractOps
      PROVE  /\ cop'[p].pc \in {"expire", "edit", "cancel"} => cop'[p].target \in 1 .. Len(contracts')
             /\ cop'[p].pc \in {"expire", "insert"} => cop'[p].start # Keep /\ cop'[p].end # Keep
  <2>1. cop'[p] = IF p = o THEN IdleRequest ELSE cop[p]
    BY <1>3 DEF ContractsTypeOK
  <2>2. 1 .. Len(contracts) \subseteq 1 .. Len(contracts')
    BY <1>4
  <2>3. CASE p = o
    BY <2>1, <2>3 DEF IdleRequest
  <2>4. CASE p # o
    BY <2>1, <2>2, <2>4 DEF ContractsTypeOK
  <2> QED BY <2>3, <2>4
<1> QED BY <1>4, <1>5, <1>6 DEF ContractsTypeOK

LEMMA EditType ==
  ASSUME ContractsTypeOK, NEW o \in ContractOps, EditContract(o), UNCHANGED today
  PROVE  ContractsTypeOK'
<1>1. PICK c \in ActiveContracts, s \in ContractDates \cup {Keep},
           e \in ContractDates \cup {Open, Keep} :
        cop' = [cop EXCEPT ![o] = [pc |-> "edit", target |-> c, start |-> s,
                                   end |-> e, seenEnd |-> Open]]
  BY DEF EditContract
<1>2. c \in 1 .. Len(contracts) /\ UNCHANGED contracts
  BY <1>1 DEF ActiveContracts, EditContract
<1>3. [pc |-> "edit", target |-> c, start |-> s, end |-> e, seenEnd |-> Open] \in ContractRequest
  BY <1>2, ContractsAssumption DEF ContractRequest
<1> QED BY <1>1, <1>2, <1>3 DEF ContractsTypeOK

LEMMA WriteEditType ==
  ASSUME ContractsTypeOK, NEW o \in ContractOps, WriteEdit(o), UNCHANGED today
  PROVE  ContractsTypeOK'
<1> DEFINE c == cop[o].target
           row == [contracts[c] EXCEPT
                     !.start = Edited(contracts[c].start, cop[o].start),
                     !.end = Edited(contracts[c].end, cop[o].end)]
<1>1. cop[o] \in ContractRequest /\ c \in 1 .. Len(contracts)
  BY DEF ContractsTypeOK, WriteEdit
<1>2. contracts[c] \in ContractRow
  BY <1>1, ElementOfSeq DEF ContractsTypeOK
<1>3. row \in ContractRow
  BY <1>1, <1>2 DEF ContractRow, ContractRequest, Edited
<1>4. contracts' = [contracts EXCEPT ![c] = row] /\ cop' = [cop EXCEPT ![o] = IdleRequest]
  BY DEF WriteEdit
<1> HIDE DEF c, row
<1>5. IdleRequest.pc = "idle"
  BY DEF IdleRequest
<1> QED BY <1>1, <1>3, <1>4, <1>5, IdleRequestType, RewriteType

LEMMA CancelType ==
  ASSUME ContractsTypeOK, NEW o \in ContractOps, CancelContract(o), UNCHANGED today
  PROVE  ContractsTypeOK'
<1>1. PICK c \in 1 .. Len(contracts) :
        cop' = [cop EXCEPT ![o] = [pc |-> "cancel", target |-> c, start |-> Keep,
                                   end |-> Keep, seenEnd |-> contracts[c].end]]
  BY DEF CancelContract
<1>2. contracts[c].end \in Days \cup {Open} /\ UNCHANGED contracts
  <2>1. contracts[c] \in ContractRow
    BY ElementOfSeq DEF ContractsTypeOK
  <2> QED BY <2>1 DEF CancelContract, ContractRow
<1>3. [pc |-> "cancel", target |-> c, start |-> Keep, end |-> Keep,
       seenEnd |-> contracts[c].end] \in ContractRequest
  BY <1>2 DEF ContractRequest
<1> QED BY <1>1, <1>2, <1>3 DEF ContractsTypeOK

LEMMA WriteCancelType ==
  ASSUME ContractsTypeOK, NEW o \in ContractOps, WriteCancel(o), UNCHANGED today
  PROVE  ContractsTypeOK'
<1> DEFINE c == cop[o].target
           row == [contracts[c] EXCEPT
                     !.status = "CANCELLED",
                     !.end = IF cop[o].seenEnd = Open THEN today ELSE cop[o].seenEnd]
<1>1. cop[o] \in ContractRequest /\ c \in 1 .. Len(contracts) /\ today \in Days
  BY CalendarInts DEF ContractsTypeOK, WriteCancel
<1>2. contracts[c] \in ContractRow
  BY <1>1, ElementOfSeq DEF ContractsTypeOK
<1>3. row \in ContractRow
  BY <1>1, <1>2 DEF ContractRow, ContractRequest, ContractStatus
<1>4. contracts' = [contracts EXCEPT ![c] = row] /\ cop' = [cop EXCEPT ![o] = IdleRequest]
  BY DEF WriteCancel
<1> HIDE DEF c, row
<1>5. IdleRequest.pc = "idle"
  BY DEF IdleRequest
<1> QED BY <1>1, <1>3, <1>4, <1>5, IdleRequestType, RewriteType

LEMMA AbortType ==
  ASSUME ContractsTypeOK, NEW o \in ContractOps, AbortRequest(o), UNCHANGED today
  PROVE  ContractsTypeOK'
BY IdleRequestType DEF ContractsTypeOK, AbortRequest, IdleRequest

LEMMA ContractStepType ==
  ASSUME ContractsTypeOK, NEW o \in ContractOps, ContractStep(o), UNCHANGED today
  PROVE  ContractsTypeOK'
BY CreateType, ExpireType, InsertType, EditType, WriteEditType, CancelType,
   WriteCancelType, AbortType DEF ContractStep

THEOREM ContractsTyped == ContractsSpec => []ContractsTypeOK
<1>1. ContractsInit /\ today = FirstToday => ContractsTypeOK
  BY ContractsInitType
<1>2. ContractsTypeOK /\ [ContractsNext]_<<contractVars, today>> => ContractsTypeOK'
  <2> SUFFICES ASSUME ContractsTypeOK, [ContractsNext]_<<contractVars, today>>
               PROVE  ContractsTypeOK'
    OBVIOUS
  <2>1. CASE UNCHANGED <<contractVars, today>>
    BY <2>1 DEF contractVars, ContractsTypeOK
  <2>2. ASSUME NEW o \in ContractOps, ContractStep(o), UNCHANGED today
        PROVE  ContractsTypeOK'
    BY <2>2, ContractStepType
  <2>3. CASE today + 1 \in WorkDays /\ today' = today + 1 /\ UNCHANGED contractVars
    BY <2>3 DEF contractVars, ContractsTypeOK
  <2> QED BY <2>1, <2>2, <2>3 DEF ContractsNext
<1> QED BY <1>1, <1>2, PTL DEF ContractsSpec, ContractsAlone
-----------------------------------------------------------------------------
(* "rather than allowing two ACTIVE rows for the same customer at once"     *)
(* (create): proved for requests that do not overlap, which the constant    *)
(* ContractOps = {o} says.  What the request in flight has read makes it    *)
(* inductive: past its expiry no row is ACTIVE, before it only its target.  *)
OnlyTargetActive ==
  \A o \in ContractOps :
    /\ cop[o].pc = "expire" => ActiveContracts \subseteq {cop[o].target}
    /\ cop[o].pc = "insert" => ActiveContracts = {}
SerialInv == ContractsTypeOK /\ AtMostOneActive /\ OnlyTargetActive

LEMMA ActiveAfterRewrite ==
  ASSUME NEW c \in 1 .. Len(contracts), NEW row \in ContractRow,
         contracts \in Seq(ContractRow), contracts' = [contracts EXCEPT ![c] = row]
  PROVE  ActiveContracts' = IF row.status = "ACTIVE" THEN ActiveContracts \cup {c}
                            ELSE ActiveContracts \ {c}
<1>1. Len(contracts') = Len(contracts)
      /\ \A d \in 1 .. Len(contracts) : contracts'[d] = IF d = c THEN row ELSE contracts[d]
  BY RowUpdate
<1> QED BY <1>1 DEF ActiveContracts

LEMMA SerialStep ==
  ASSUME SerialInv, NEW o \in ContractOps, ContractOps = {o}, ContractStep(o), UNCHANGED today
  PROVE  AtMostOneActive' /\ OnlyTargetActive'
<1> DEFINE c == cop[o].target
<1>0. /\ ContractsTypeOK /\ cop[o] \in ContractRequest /\ contracts \in Seq(ContractRow)
      /\ cop \in [ContractOps -> ContractRequest]
  BY DEF SerialInv, ContractsTypeOK
<1>1. CASE CreateContract(o)
  <2>1. ActiveContracts' = ActiveContracts
    BY <1>1 DEF CreateContract, ActiveContracts
  <2>2. /\ cop'[o].pc = "expire" => ActiveContracts \subseteq {cop'[o].target}
        /\ cop'[o].pc = "insert" => ActiveContracts = {}
    <3>1. PICK s \in ContractDates, e \in ContractDates \cup {Open} :
            \/ /\ ActiveContracts = {}
               /\ cop' = [cop EXCEPT ![o] = [pc |-> "insert", target |-> 0, start |-> s,
                                             end |-> e, seenEnd |-> Open]]
            \/ \E a \in ActiveContracts :
                 cop' = [cop EXCEPT ![o] = [pc |-> "expire", target |-> a, start |-> s,
                                            end |-> e, seenEnd |-> contracts[a].end]]
      BY <1>1 DEF CreateContract
    <3>2. \A a \in ActiveContracts : ActiveContracts \subseteq {a}
      BY DEF SerialInv, AtMostOneActive
    <3> QED BY <1>0, <3>1, <3>2
  <2> QED BY <2>1, <2>2 DEF SerialInv, AtMostOneActive, OnlyTargetActive
<1>2. CASE ExpireContract(o)
  <2> DEFINE row == [contracts[c] EXCEPT !.status = "EXPIRED", !.end = ExpiredEnd(o)]
  <2>1. c \in 1 .. Len(contracts) /\ contracts[c] \in ContractRow
    BY <1>0, <1>2, ElementOfSeq DEF ContractsTypeOK, ExpireContract
  <2>2. ExpiredEnd(o) \in Days \cup {Open}
    BY <1>0, <1>2 DEF ContractsTypeOK, ContractRequest, ExpiredEnd, ExpireContract
  <2>3. row \in ContractRow /\ row.status # "ACTIVE"
    BY <2>1, <2>2 DEF ContractRow, ContractStatus
  <2>4. contracts' = [contracts EXCEPT ![c] = row] /\ cop'[o].pc = "insert"
    BY <1>0, <1>2 DEF ExpireContract
  <2> HIDE DEF row
  <2>5. ActiveContracts' = ActiveContracts \ {c}
    BY <1>0, <2>1, <2>3, <2>4, ActiveAfterRewrite
  <2>6. ActiveContracts \subseteq {c}
    BY <1>2 DEF SerialInv, OnlyTargetActive, ExpireContract
  <2>7. ActiveContracts' = {}
    BY <2>5, <2>6
  <2> QED BY <2>4, <2>7 DEF AtMostOneActive, OnlyTargetActive
<1>3. CASE InsertContract(o)
  <2> DEFINE row == [start |-> cop[o].start, end |-> cop[o].end, status |-> "ACTIVE"]
  <2>1. ActiveContracts = {}
    BY <1>3 DEF SerialInv, OnlyTargetActive, InsertContract
  <2>2. row \in ContractRow
    BY <1>0, <1>3 DEF ContractsTypeOK, InsertContract, ContractRequest, ContractRow, ContractStatus
  <2>3. contracts' = Append(contracts, row) /\ cop'[o] = IdleRequest
    BY <1>0, <1>3 DEF InsertContract
  <2> HIDE DEF row
  <2>4. /\ Len(contracts') = Len(contracts) + 1 /\ Len(contracts) \in Nat
        /\ \A d \in 1 .. Len(contracts) : contracts'[d] = contracts[d]
    BY <1>0, <2>2, <2>3, AppendProperties, LenProperties
  <2>5. ActiveContracts' \subseteq {Len(contracts) + 1}
    BY <2>1, <2>4 DEF ActiveContracts
  <2> QED BY <2>3, <2>5 DEF AtMostOneActive, OnlyTargetActive, IdleRequest
<1>4. CASE EditContract(o) \/ CancelContract(o) \/ AbortRequest(o)
  <2>1. UNCHANGED contracts /\ cop'[o].pc \notin {"expire", "insert"}
    BY <1>0, <1>4 DEF EditContract, CancelContract, AbortRequest, IdleRequest
  <2> QED BY <2>1 DEF SerialInv, AtMostOneActive, OnlyTargetActive, ActiveContracts
<1>5. CASE WriteEdit(o)
  <2> DEFINE row == [contracts[c] EXCEPT
                       !.start = Edited(contracts[c].start, cop[o].start),
                       !.end = Edited(contracts[c].end, cop[o].end)]
  <2>1. c \in 1 .. Len(contracts) /\ contracts[c] \in ContractRow
    BY <1>0, <1>5, ElementOfSeq DEF ContractsTypeOK, WriteEdit
  <2>2. row \in ContractRow /\ row.status = contracts[c].status
    BY <1>0, <2>1 DEF ContractRow, ContractRequest, Edited
  <2>3. contracts' = [contracts EXCEPT ![c] = row] /\ cop'[o] = IdleRequest
    BY <1>0, <1>5 DEF WriteEdit
  <2> HIDE DEF row
  <2>4. ActiveContracts' = ActiveContracts
    <3>1. ActiveContracts' = IF row.status = "ACTIVE" THEN ActiveContracts \cup {c}
                             ELSE ActiveContracts \ {c}
      BY <1>0, <2>1, <2>2, <2>3, ActiveAfterRewrite
    <3> QED BY <2>1, <2>2, <3>1 DEF ActiveContracts
  <2> QED BY <2>3, <2>4 DEF SerialInv, AtMostOneActive, OnlyTargetActive, IdleRequest
<1>6. CASE WriteCancel(o)
  <2> DEFINE row == [contracts[c] EXCEPT
                       !.status = "CANCELLED",
                       !.end = IF cop[o].seenEnd = Open THEN today ELSE cop[o].seenEnd]
  <2>1. c \in 1 .. Len(contracts) /\ contracts[c] \in ContractRow /\ today \in Days
    BY <1>0, <1>6, ElementOfSeq, CalendarInts DEF ContractsTypeOK, WriteCancel
  <2>2. row \in ContractRow /\ row.status # "ACTIVE"
    BY <1>0, <2>1 DEF ContractRow, ContractRequest, ContractStatus
  <2>3. contracts' = [contracts EXCEPT ![c] = row] /\ cop'[o] = IdleRequest
    BY <1>0, <1>6 DEF WriteCancel
  <2> HIDE DEF row
  <2>4. ActiveContracts' \subseteq ActiveContracts
    BY <1>0, <2>1, <2>2, <2>3, ActiveAfterRewrite
  <2> QED BY <2>3, <2>4 DEF SerialInv, AtMostOneActive, OnlyTargetActive, IdleRequest
<1> QED BY <1>1, <1>2, <1>3, <1>4, <1>5, <1>6 DEF ContractStep

THEOREM SerialOneActive ==
  ASSUME NEW o, ContractOps = {o}
  PROVE  ContractsSpec => []AtMostOneActive
<1>1. ContractsInit /\ today = FirstToday => SerialInv
  BY ContractsAssumption, ContractsInitType
  DEF ContractsInit, SerialInv, AtMostOneActive, OnlyTargetActive, ActiveContracts, IdleRequest
<1>2. SerialInv /\ [ContractsNext]_<<contractVars, today>> => SerialInv'
  <2> SUFFICES ASSUME SerialInv, [ContractsNext]_<<contractVars, today>> PROVE SerialInv'
    OBVIOUS
  <2>1. CASE UNCHANGED contractVars /\ (\/ today + 1 \in WorkDays /\ today' = today + 1
                                        \/ UNCHANGED today)
    BY <2>1 DEF SerialInv, contractVars, ContractsTypeOK, AtMostOneActive, OnlyTargetActive,
                ActiveContracts
  <2>2. CASE ContractStep(o) /\ UNCHANGED today
    <3>1. ContractsTypeOK'
      BY <2>2, ContractStepType DEF SerialInv
    <3>2. AtMostOneActive' /\ OnlyTargetActive'
      BY <2>2, SerialStep
    <3> QED BY <3>1, <3>2 DEF SerialInv
  <2> QED BY <2>1, <2>2 DEF ContractsNext
<1>3. SerialInv => AtMostOneActive
  BY DEF SerialInv
<1> QED BY <1>1, <1>2, <1>3, PTL DEF ContractsSpec, ContractsAlone
-----------------------------------------------------------------------------
(* What a renegotiation leaves covered. The range staff entered holds, and  *)
(* once the old row is expired it ends where the request will start the new *)
(* one, as long as no other request comes between.                          *)
RangesHold ==
  \A o \in ContractOps : cop[o].pc \in {"expire", "insert"} => cop[o].start <= cop[o].end
TargetClosed ==
  \A o \in ContractOps : cop[o].pc = "insert" /\ cop[o].target # 0 =>
    /\ cop[o].target \in 1 .. Len(contracts)
    /\ contracts[cop[o].target].end = ExpiredEnd(o)

\* What a request has read and will write, after one step of its own.
LEMMA RequestAfterStep ==
  ASSUME ContractsTypeOK, RangesHold, NEW o \in ContractOps, ContractStep(o)
  PROVE  /\ \A p \in ContractOps : p # o => cop'[p] = cop[p]
         /\ cop'[o].pc \in {"expire", "insert"} => cop'[o].start <= cop'[o].end
         /\ cop'[o].pc = "insert" => \/ cop'[o].target = 0
                                     \/ ExpireContract(o) /\ cop'[o] = [cop[o] EXCEPT !.pc = "insert"]
<1>1. cop \in [ContractOps -> ContractRequest] /\ cop[o] \in ContractRequest
  BY DEF ContractsTypeOK
<1>2. CASE CreateContract(o)
  <2>1. PICK s \in ContractDates, e \in ContractDates \cup {Open} :
          /\ s <= e
          /\ \/ cop' = [cop EXCEPT ![o] = [pc |-> "insert", target |-> 0, start |-> s,
                                           end |-> e, seenEnd |-> Open]]
             \/ \E a \in ActiveContracts :
                  cop' = [cop EXCEPT ![o] = [pc |-> "expire", target |-> a, start |-> s,
                                             end |-> e, seenEnd |-> contracts[a].end]]
    BY <1>2 DEF CreateContract
  <2>2. \E a, seen : \/ cop' = [cop EXCEPT ![o] = [pc |-> "insert", target |-> 0, start |-> s,
                                                 end |-> e, seenEnd |-> Open]]
                     \/ cop' = [cop EXCEPT ![o] = [pc |-> "expire", target |-> a, start |-> s,
                                                   end |-> e, seenEnd |-> seen]]
    BY <2>1
  <2>3. /\ \A p \in ContractOps : p # o => cop'[p] = cop[p]
        /\ cop'[o].start = s /\ cop'[o].end = e /\ (cop'[o].pc = "insert" => cop'[o].target = 0)
    BY <1>1, <2>2
  <2> QED BY <2>1, <2>3
<1>3. CASE ExpireContract(o)
  BY <1>1, <1>3 DEF ExpireContract, RangesHold, ContractRequest
<1>4. CASE EditContract(o)
  BY <1>1, <1>4 DEF EditContract
<1>5. CASE CancelContract(o)
  BY <1>1, <1>5 DEF CancelContract
<1>6. CASE InsertContract(o) \/ WriteEdit(o) \/ WriteCancel(o) \/ AbortRequest(o)
  BY <1>1, <1>6 DEF InsertContract, WriteEdit, WriteCancel, AbortRequest, IdleRequest
<1> QED BY <1>2, <1>3, <1>4, <1>5, <1>6 DEF ContractStep

LEMMA RangesStep ==
  ASSUME ContractsTypeOK, RangesHold, [ContractsNext]_<<contractVars, today>>
  PROVE  RangesHold'
<1>1. CASE UNCHANGED cop
  BY <1>1 DEF RangesHold
<1>2. ASSUME NEW o \in ContractOps, ContractStep(o) PROVE RangesHold'
  BY <1>2, RequestAfterStep DEF RangesHold
<1> QED BY <1>1, <1>2 DEF ContractsNext, contractVars

LEMMA RangesInit == ContractsInit => RangesHold
  BY DEF ContractsInit, RangesHold, IdleRequest

\* The row a create inserts is the last one, and covers its first day.
LEMMA Inserted ==
  ASSUME ContractsTypeOK, RangesHold, NEW o \in ContractOps, InsertContract(o)
  PROVE  /\ Len(contracts) \in Nat /\ Len(contracts') = Len(contracts) + 1
         /\ \A c \in 1 .. Len(contracts) : contracts'[c] = contracts[c] /\ contracts[c] \in ContractRow
         /\ contracts'[Len(contracts) + 1] = [start |-> cop[o].start, end |-> cop[o].end, status |-> "ACTIVE"]
         /\ cop[o].start \in Days /\ cop[o].end \in Days \cup {Open} /\ cop[o].start <= cop[o].end
<1> DEFINE row == [start |-> cop[o].start, end |-> cop[o].end, status |-> "ACTIVE"]
<1>1. cop[o] \in ContractRequest /\ cop[o].pc = "insert"
  BY DEF ContractsTypeOK, InsertContract
<1>2. /\ cop[o].start \in Days /\ cop[o].end \in Days \cup {Open} /\ cop[o].start <= cop[o].end
  BY <1>1 DEF ContractsTypeOK, RangesHold, ContractRequest
<1>3. row \in ContractRow
  BY <1>2 DEF ContractRow, ContractStatus
<1>4. contracts' = Append(contracts, row) /\ contracts \in Seq(ContractRow)
  BY DEF InsertContract, ContractsTypeOK
<1> HIDE DEF row
<1>5. /\ Len(contracts) \in Nat /\ Len(contracts') = Len(contracts) + 1
      /\ contracts'[Len(contracts) + 1] = row
      /\ \A c \in 1 .. Len(contracts) : contracts'[c] = contracts[c]
  BY <1>3, <1>4, AppendProperties, LenProperties
<1>6. \A c \in 1 .. Len(contracts) : contracts[c] \in ContractRow
  BY <1>4, ElementOfSeq
<1> QED BY <1>2, <1>5, <1>6 DEF row

(* "the most recently created wins" (resolveBilling): the first day of a    *)
(* contract is billed by it, however many requests are under way, unless    *)
(* a contract that starts later was entered before.                         *)
THEOREM NewestWins == ContractsSpec => NewestWinsItsFirstDay
<1>1. ContractsInit => RangesHold
  BY RangesInit
<1>2. ContractsTypeOK /\ RangesHold /\ [ContractsNext]_<<contractVars, today>> => RangesHold'
  BY RangesStep
<1>3. ASSUME ContractsTypeOK, RangesHold, NEW o \in ContractOps, NEW d \in Days,
             InsertContract(o), cop[o].start = d,
             \A c \in 1 .. Len(contracts) : contracts[c].start <= d
      PROVE  BilledBy(d, d)' = {Len(contracts')}
  <2>n. PICK n : n = Len(contracts) + 1
    OBVIOUS
  <2>a. /\ Len(contracts) \in Nat /\ Len(contracts') = Len(contracts) + 1
        /\ \A c \in 1 .. Len(contracts) : contracts'[c] = contracts[c] /\ contracts[c] \in ContractRow
        /\ contracts'[n] = [start |-> cop[o].start, end |-> cop[o].end, status |-> "ACTIVE"]
        /\ d <= cop[o].end /\ d \in Int
    BY <1>3, <2>n, Inserted, CalendarInts
  <2>b. n \in Int /\ Len(contracts') = n /\ n >= 1 /\ Len(contracts) = n - 1
    BY <2>n, <2>a
  <2>1. n \in 1 .. Len(contracts') /\ contracts'[n].start = d /\ d <= contracts'[n].end
    BY <1>3, <2>a, <2>b
  <2>2. \A c \in 1 .. Len(contracts') : contracts'[c].start \in Int /\ contracts'[c].start <= d /\ c <= n
    <3> TAKE c \in 1 .. Len(contracts')
    <3>1. CASE c = n
      BY <2>1, <2>a, <2>b, <3>1
    <3>2. CASE c # n
      <4>1. c \in 1 .. Len(contracts) /\ c <= n
        BY <2>b, <3>2
      <4>2. contracts'[c] = contracts[c] /\ contracts[c].start \in Days
        BY <2>a, <4>1 DEF ContractRow
      <4> QED BY <1>3, <4>1, <4>2, CalendarInts
    <3> QED BY <3>1, <3>2
  <2>3. Covering(d, d)' = {c \in 1 .. Len(contracts') : contracts'[c].start <= d /\ d <= contracts'[c].end}
    BY DEF Covering
  <2>4. n \in Covering(d, d)' /\ Covering(d, d)' \subseteq 1 .. Len(contracts')
    BY <2>1, <2>2, <2>3
  <2>5. \A b, c \in 1 .. Len(contracts') : Outranks(b, c)' <=>
          (contracts'[b].start > contracts'[c].start \/ (contracts'[b].start = contracts'[c].start /\ b >= c))
    BY DEF Outranks
  <2>6. BilledBy(d, d)' = {b \in Covering(d, d)' : \A c \in Covering(d, d)' : Outranks(b, c)'}
    BY DEF BilledBy
  <2>7. n \in BilledBy(d, d)'
    <3>1. ASSUME NEW c \in Covering(d, d)' PROVE Outranks(n, c)'
      <4>1. /\ contracts'[c].start \in Int /\ contracts'[c].start <= d /\ c <= n
            /\ c \in 1 .. Len(contracts')
        BY <2>2, <2>4, <3>1
      <4>2. d > contracts'[c].start \/ (d = contracts'[c].start /\ n >= c)
        BY <2>a, <2>b, <4>1
      <4> QED BY <2>1, <2>5, <4>1, <4>2
    <3> QED BY <2>4, <2>6, <3>1
  <2>8. ASSUME NEW b \in BilledBy(d, d)' PROVE b = n
    <3>0. b \in Covering(d, d)' /\ \A c \in Covering(d, d)' : Outranks(b, c)'
      BY <2>6, <2>8
    <3>1. b \in 1 .. Len(contracts') /\ Outranks(b, n)'
      BY <2>4, <3>0
    <3>2. contracts'[b].start > d \/ b >= n
      BY <2>1, <2>5, <3>1
    <3>3. contracts'[b].start \in Int /\ contracts'[b].start <= d /\ b <= n
      BY <2>2, <3>1
    <3> QED BY <2>a, <2>b, <3>1, <3>2, <3>3
  <2> QED BY <2>b, <2>7, <2>8
<1>4. ContractsTypeOK /\ RangesHold /\ [ContractsNext]_<<contractVars, today>> =>
        [\A o \in ContractOps, d \in Days :
           (/\ InsertContract(o) /\ cop[o].start = d
            /\ \A c \in 1 .. Len(contracts) : contracts[c].start <= d) =>
              BilledBy(d, d)' = {Len(contracts')}]_<<contractVars, today>>
  BY <1>3
<1> QED BY <1>1, <1>2, <1>4, ContractsTyped, PTL DEF ContractsSpec, ContractsAlone, NewestWinsItsFirstDay

LEMMA TargetClosedStep ==
  ASSUME ContractsTypeOK, RangesHold, TargetClosed, \A p, q \in ContractOps : p = q,
         [ContractsNext]_<<contractVars, today>>
  PROVE  TargetClosed'
<1>1. CASE UNCHANGED contractVars
  BY <1>1 DEF TargetClosed, contractVars, ExpiredEnd
<1>2. ASSUME NEW o \in ContractOps, ContractStep(o) PROVE TargetClosed'
  <2> SUFFICES ASSUME cop'[o].pc = "insert", cop'[o].target # 0
               PROVE  /\ cop'[o].target \in 1 .. Len(contracts')
                      /\ contracts'[cop'[o].target].end = ExpiredEnd(o)'
    BY DEF TargetClosed
  <2> DEFINE c == cop[o].target
             row == [contracts[c] EXCEPT !.status = "EXPIRED", !.end = ExpiredEnd(o)]
  <2>1. ExpireContract(o) /\ cop'[o] = [cop[o] EXCEPT !.pc = "insert"]
    BY <1>2, RequestAfterStep
  <2>2. c \in 1 .. Len(contracts) /\ contracts \in Seq(ContractRow) /\ cop[o] \in ContractRequest
    BY <2>1 DEF ContractsTypeOK, ExpireContract
  <2>3. contracts[c] \in ContractRow /\ ExpiredEnd(o) \in Days \cup {Open}
    <3>1. cop[o].start # Keep
      BY <2>1 DEF ContractsTypeOK, ExpireContract
    <3> QED BY <2>2, <3>1, ElementOfSeq DEF ExpiredEnd, ContractRequest
  <2>4. row \in ContractRow /\ row.end = ExpiredEnd(o)
    BY <2>3 DEF ContractRow, ContractStatus
  <2>5. contracts' = [contracts EXCEPT ![c] = row]
    BY <2>1 DEF ExpireContract
  <2> HIDE DEF row
  <2>6. Len(contracts') = Len(contracts) /\ contracts'[c] = row
    BY <2>2, <2>4, <2>5, RowUpdate
  <2>7. /\ cop'[o].target = c /\ cop'[o].start = cop[o].start /\ cop'[o].seenEnd = cop[o].seenEnd
    BY <2>1, <2>2 DEF ContractRequest
  <2>8. ExpiredEnd(o)' = ExpiredEnd(o)
    BY <2>7 DEF ExpiredEnd
  <2> QED BY <2>2, <2>4, <2>6, <2>7, <2>8
<1> QED BY <1>1, <1>2 DEF ContractsNext

(* A renegotiation with no end date leaves no day uncovered that the        *)
(* renegotiated contract covered (create, resolveBilling): proved for       *)
(* requests that do not overlap.                                            *)
THEOREM RenegotiationCovers ==
  ASSUME \A p, q \in ContractOps : p = q
  PROVE  ContractsSpec => RenegotiationKeepsCoverage
<1>1. ContractsInit => RangesHold /\ TargetClosed
  BY RangesInit DEF ContractsInit, TargetClosed, IdleRequest
<1>2. ContractsTypeOK /\ RangesHold /\ TargetClosed /\ [ContractsNext]_<<contractVars, today>>
        => RangesHold' /\ TargetClosed'
  BY RangesStep, TargetClosedStep
<1>3. ASSUME ContractsTypeOK, RangesHold, TargetClosed, NEW p \in ContractOps, InsertContract(p),
             cop[p].target # 0, cop[p].end = Open,
             NEW d \in contracts[cop[p].target].start .. cop[p].seenEnd, d \in Days
      PROVE  Covered(d)'
  <2> DEFINE t == cop[p].target
  <2>n. PICK n : n = Len(contracts) + 1
    OBVIOUS
  <2>1. /\ t \in 1 .. Len(contracts) /\ contracts[t].end = ExpiredEnd(p) /\ cop[p] \in ContractRequest
    BY <1>3 DEF InsertContract, TargetClosed, ContractsTypeOK
  <2>2. /\ contracts'[t] = contracts[t] /\ contracts[t] \in ContractRow
        /\ t \in 1 .. Len(contracts') /\ n \in 1 .. Len(contracts')
        /\ contracts'[n].start = cop[p].start /\ contracts'[n].end = Open /\ cop[p].start \in Days
    <3>1. /\ Len(contracts) \in Nat /\ Len(contracts') = Len(contracts) + 1
          /\ contracts'[n] = [start |-> cop[p].start, end |-> cop[p].end, status |-> "ACTIVE"]
      BY <1>3, <2>n, Inserted
    <3>2. contracts'[t] = contracts[t] /\ contracts[t] \in ContractRow /\ cop[p].start \in Days
      BY <1>3, <2>1, Inserted
    <3>3. t \in 1 .. Len(contracts') /\ n \in 1 .. Len(contracts')
      BY <2>n, <2>1, <3>1
    <3> QED BY <1>3, <3>1, <3>2, <3>3
  <2>3. /\ contracts[t].start \in Int /\ cop[p].seenEnd \in Int /\ d \in Int /\ cop[p].start \in Int
        /\ d < Open /\ Open \in Int
    BY <1>3, <2>1, <2>2, CalendarInts DEF ContractRow, ContractRequest
  <2>4. Covered(d)' <=> \E c \in 1 .. Len(contracts') : contracts'[c].start <= d /\ d <= contracts'[c].end
    BY DEF Covered, Covering
  <2>5. contracts[t].start <= d /\ d <= cop[p].seenEnd
    BY <1>3, <2>3
  <2>6. CASE cop[p].seenEnd # Open \/ d <= cop[p].start
    <3>1. d <= contracts'[t].end
      BY <2>1, <2>2, <2>5, <2>6 DEF ExpiredEnd
    <3> QED BY <2>2, <2>4, <2>5, <3>1
  <2>7. CASE cop[p].start <= d
    BY <2>2, <2>3, <2>4, <2>7
  <2> QED BY <2>3, <2>6, <2>7
<1>4. ContractsTypeOK /\ RangesHold /\ TargetClosed /\ [ContractsNext]_<<contractVars, today>> =>
        [\A o \in ContractOps :
           (InsertContract(o) /\ cop[o].target # 0 /\ cop[o].end = Open) =>
             \A d \in contracts[cop[o].target].start .. cop[o].seenEnd :
               d \in Days => Covered(d)']_<<contractVars, today>>
  <2> SUFFICES ASSUME ContractsTypeOK, RangesHold, TargetClosed, NEW o \in ContractOps,
                      InsertContract(o), cop[o].target # 0, cop[o].end = Open,
                      NEW d \in contracts[cop[o].target].start .. cop[o].seenEnd, d \in Days
               PROVE  Covered(d)'
    OBVIOUS
  <2> QED BY <1>3
<1> QED BY <1>1, <1>2, <1>4, ContractsTyped, PTL DEF ContractsSpec, ContractsAlone, RenegotiationKeepsCoverage
=============================================================================
