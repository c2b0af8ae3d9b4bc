------------------------------ MODULE Contracts ------------------------------
(* One customer's contracts (src/api/src/contracts/contracts.service.ts).   *)
(* Contracts are rows in the order of createdAt.  Every request reads the   *)
(* table in one step and writes in later ones, none of it in a transaction. *)
EXTENDS BillingCycle, Sequences

CONSTANTS
  ContractOps,     \* requests that may be in flight at once
  ContractDates,   \* start and end dates staff may enter
  InitContracts,   \* the rows the customer starts with
  FirstToday,      \* the day the model starts on
  MaxContracts     \* bound on the rows ever created

VARIABLES
  contracts,   \* <<[start, end, status], ...>>
  cop,         \* cop[o]: where request o stands and what it has read
  today        \* the server's date

contractVars == <<contracts, cop>>

Open == FirstDay[LastMonth + 1]      \* endDate null: later than every day
Keep == -1                           \* a field the update leaves out
ContractStatus == {"ACTIVE", "EXPIRED", "CANCELLED"}
ContractRow == [start : Days, end : Days \cup {Open}, status : ContractStatus]
ContractRequest ==
  [pc : {"idle", "expire", "insert", "edit", "cancel"}, target : Nat,
   start : Days \cup {Keep}, end : Days \cup {Open, Keep}, seenEnd : Days \cup {Open}]
IdleRequest ==
  [pc |-> "idle", target |-> 0, start |-> Keep, end |-> Keep, seenEnd |-> Open]

ASSUME ContractsAssumption ==
  /\ ContractDates \subseteq Days
  /\ InitContracts \in Seq(ContractRow)
  /\ \A c, d \in 1 .. Len(InitContracts) :
       InitContracts[c].status = "ACTIVE" /\ InitContracts[d].status = "ACTIVE" => c = d
  /\ FirstToday \in WorkDays
  /\ MaxContracts \in Nat

ActiveContracts == {c \in 1 .. Len(contracts) : contracts[c].status = "ACTIVE"}

\* resolveBilling's choice of contract: any row that meets the period, the
\* one that starts last, then the one entered last.  A set of at most one.
Covering(s, e) ==
  {c \in 1 .. Len(contracts) : contracts[c].start <= e /\ s <= contracts[c].end}
\* Mutant: a tie on the start goes to the contract entered first.
Outranks_Oldest(c, d) ==
  \/ contracts[c].start > contracts[d].start
  \/ contracts[c].start = contracts[d].start /\ c <= d
Outranks(c, d) ==
  \/ contracts[c].start > contracts[d].start
  \/ contracts[c].start = contracts[d].start /\ c >= d
BilledBy(s, e) == {c \in Covering(s, e) : \A d \in Covering(s, e) : Outranks(c, d)}

ContractsInit ==
  /\ contracts = InitContracts
  /\ cop = [o \in ContractOps |-> IdleRequest]

\* create: the first read, findFirst on status ACTIVE without an order.
CreateContract(o) ==
  /\ cop[o].pc = "idle"
  /\ Len(contracts) < MaxContracts
  /\ \E s \in ContractDates, e \in ContractDates \cup {Open} :
       \* an end date before the start is a typing error left out
       /\ s <= e
       /\ \/ /\ ActiveContracts = {}
             /\ cop' = [cop EXCEPT ![o] = [pc |-> "insert", target |-> 0, start |-> s,
                                           end |-> e, seenEnd |-> Open]]
          \/ \E a \in ActiveContracts :
               cop' = [cop EXCEPT ![o] = [pc |-> "expire", target |-> a, start |-> s,
                                          end |-> e, seenEnd |-> contracts[a].end]]
  /\ UNCHANGED contracts

\* Mutant: closed today, as cancel does.
ExpiredEnd_Today(o) == IF cop[o].seenEnd = Open THEN today ELSE cop[o].seenEnd

\* create: the row that was read becomes EXPIRED, closed where the new one starts.
ExpiredEnd(o) == IF cop[o].seenEnd = Open THEN cop[o].start ELSE cop[o].seenEnd
\* Mutant: the old row is closed but keeps its status.
ExpireContract_StillActive(o) ==
  /\ cop[o].pc = "expire"
  /\ contracts' = [contracts EXCEPT ![cop[o].target].end = ExpiredEnd(o)]
  /\ cop' = [cop EXCEPT ![o].pc = "insert"]
ExpireContract(o) ==
  /\ cop[o].pc = "expire"
  /\ contracts' = [contracts EXCEPT
        ![cop[o].target] = [@ EXCEPT !.status = "EXPIRED", !.end = ExpiredEnd(o)]]
  /\ cop' = [cop EXCEPT ![o].pc = "insert"]

\* create: the new row.
InsertContract(o) ==
  /\ cop[o].pc = "insert"
  /\ Len(contracts) < MaxContracts
  /\ contracts' = Append(contracts, [start |-> cop[o].start, end |-> cop[o].end,
                                     status |-> "ACTIVE"])
  /\ cop' = [cop EXCEPT ![o] = IdleRequest]

\* update: only an ACTIVE row passes, its dates are written by a later step.
EditContract(o) ==
  /\ cop[o].pc = "idle"
  /\ \E c \in ActiveContracts, s \in ContractDates \cup {Keep},
        e \in ContractDates \cup {Open, Keep} :
       cop' = [cop EXCEPT ![o] = [pc |-> "edit", target |-> c, start |-> s,
                                  end |-> e, seenEnd |-> Open]]
  /\ UNCHANGED contracts
Edited(old, new) == IF new = Keep THEN old ELSE new
WriteEdit(o) ==
  /\ cop[o].pc = "edit"
  /\ LET r == cop[o]
         row == contracts[r.target]
     IN contracts' = [contracts EXCEPT ![r.target] =
          [row EXCEPT !.start = Edited(row.start, r.start), !.end = Edited(row.end, r.end)]]
  /\ cop' = [cop EXCEPT ![o] = IdleRequest]

\* cancel: any row; an open one ends today.
CancelContract(o) ==
  /\ cop[o].pc = "idle"
  /\ \E c \in 1 .. Len(contracts) :
       cop' = [cop EXCEPT ![o] = [pc |-> "cancel", target |-> c, start |-> Keep,
                                  end |-> Keep, seenEnd |-> contracts[c].end]]
  /\ UNCHANGED contracts
WriteCancel(o) ==
  /\ cop[o].pc = "cancel"
  /\ LET r == cop[o] IN
     contracts' = [contracts EXCEPT ![r.target] =
        [@ EXCEPT !.status = "CANCELLED",
                  !.end = IF r.seenEnd = Open THEN today ELSE r.seenEnd]]
  /\ cop' = [cop EXCEPT ![o] = IdleRequest]

\* A write fails or the process dies: what was written stays written.
AbortRequest(o) ==
  /\ cop[o].pc # "idle"
  /\ cop' = [cop EXCEPT ![o] = IdleRequest]
  /\ UNCHANGED contracts

ContractStep(o) ==
  \/ CreateContract(o) \/ ExpireContract(o) \/ InsertContract(o)
  \/ EditContract(o) \/ WriteEdit(o)
  \/ CancelContract(o) \/ WriteCancel(o)
  \/ AbortRequest(o)

ContractsNext ==
  \/ /\ \E o \in ContractOps : ContractStep(o)
     /\ UNCHANGED today
  \/ /\ today + 1 \in WorkDays
     /\ today' = today + 1
     /\ UNCHANGED contractVars

ContractsAlone == ContractsInit /\ today = FirstToday
ContractsSpec == ContractsAlone /\ [][ContractsNext]_<<contractVars, today>>
-----------------------------------------------------------------------------
(* Type correctness: rows and requests keep their shape, and a request that *)
(* is past its read points at a row of the table (contracts.service.ts).    *)
ContractsTypeOK ==
  /\ contracts \in Seq(ContractRow)
  /\ cop \in [ContractOps -> ContractRequest]
  /\ today \in WorkDays
  /\ \A o \in ContractOps :
       /\ cop[o].pc \in {"expire", "edit", "cancel"} => cop[o].target \in 1 .. Len(contracts)
       /\ cop[o].pc \in {"expire", "insert"} => cop[o].start # Keep /\ cop[o].end # Keep

(* "rather than allowing two ACTIVE rows for the same customer at once"     *)
(* (create, contracts.service.ts:40-43): true of requests that do not       *)
(* overlap, lost when two creates read before either writes.                *)
AtMostOneActive == \A c, d \in ActiveContracts : c = d

(* A renegotiation with no end date leaves no day uncovered that the        *)
(* renegotiated contract covered: create closes it where the new one starts *)
(* and the comparison is inclusive on both sides (resolveBilling).          *)
Covered(d) == Covering(d, d) # {}
RenegotiationKeepsCoverage ==
  [][\A o \in ContractOps :
       (InsertContract(o) /\ cop[o].target # 0 /\ cop[o].end = Open) =>
         \A d \in contracts[cop[o].target].start .. cop[o].seenEnd :
           d \in Days => Covered(d)']_<<contractVars, today>>

(* The day a contract is renegotiated is billed by the contract entered     *)
(* last, also when both start on that day (resolveBilling's orderBy).       *)
NewestWinsItsFirstDay ==
  [][\A o \in ContractOps, d \in Days :
       (/\ InsertContract(o) /\ cop[o].start = d
        /\ \A c \in 1 .. Len(contracts) : contracts[c].start <= d) =>
          BilledBy(d, d)' = {Len(contracts')}]_<<contractVars, today>>
=============================================================================
