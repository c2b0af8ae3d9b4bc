------------------------------- MODULE Fleet -------------------------------
(* Which device a reading belongs to (IngestService, upsertDevice) and what *)
(* staff decide about the device (DevicesService.update). Agents poll       *)
(* printers and send each report until it is answered or given up; a        *)
(* printer may be moved, or replaced at its address by another, and a poll  *)
(* may fail to read its serial number or its counter.                       *)
EXTENDS Integers, Sequences

CONSTANTS
  Printers,      \* the machines
  SerialOf,      \* their serial numbers; NoSerial if they report none
  SiteOf,        \* the customer, and so the agent, of each
  Customers,
  Hosts,         \* addresses; two customers' networks may use the same
  Outside,       \* those that are not on their agent's own network
  NoSerial, NoOne,
  Overlap,       \* whether different reports are served at once
  MaxRows, MaxMoves, MaxAttempts, MaxAnswers  \* bounds

ASSUME FleetAssumption ==
  /\ SiteOf \in [Printers -> Customers] /\ DOMAIN SerialOf = Printers
  /\ \A p, q \in Printers : SerialOf[p] = SerialOf[q] => p = q \/ SerialOf[p] = NoSerial
  /\ NoOne \notin Customers \cup Printers /\ Outside \subseteq Hosts
  /\ MaxRows \in Nat /\ MaxMoves \in Nat /\ MaxAttempts \in Nat /\ MaxAnswers \in Nat

VARIABLES
  place,     \* where each printer is
  sending,   \* the report each customer's agent sends, and its attempts so far
  requests,  \* reports being served, with the device that was looked up
  devices,      \* the devices
  later,     \* by lastSeenAt: <<i, j>> when i was seen later than j
  stored,    \* history: the reading stored last, and its device
  identified,\* history: the machine at an address, as far as serials have told
  moves, answers  \* printers moved, staff's decisions
fvars == <<place, sending, requests, devices, later, stored, identified, moves, answers>>

NoDevice == 0
Gone == "gone"
Serials == {SerialOf[p] : p \in Printers} \cup {NoSerial}
Reading == [printer : Printers, host : Hosts, serial : Serials, counter : BOOLEAN]
Row == [serial : Serials, host : Hosts, customer : Customers \cup {NoOne},
        billingExcluded : BOOLEAN, reviewPending : BOOLEAN,
        confirmed : BOOLEAN]  \* history: staff answered, or there was nothing to ask
NoReading == [printer |-> NoOne, host |-> Gone, serial |-> NoSerial, counter |-> FALSE]
NothingStored == [device |-> NoDevice, printer |-> NoOne, sure |-> FALSE]
NotSending == [reading |-> NoReading, attempts |-> 0]
-----------------------------------------------------------------------------
\* A printer is moved to an address, where it replaces its site's other, or away.
MovePrinter(p, h) ==
  /\ moves < MaxMoves /\ moves' = moves + 1
  /\ h # place[p]
  /\ place' = [q \in Printers |-> IF q = p THEN h
                 ELSE IF SiteOf[q] = SiteOf[p] /\ place[q] = h THEN Gone ELSE place[q]]
  /\ UNCHANGED <<sending, requests, devices, later, stored, identified, answers>>

\* The agent's poll; the serial and the counter are read or not. A report has
\* one printer, so a batch that ends half-way is not modelled; nor is a report
\* that nothing answered at an address, which finds the device seen last there,
\* and leaves it so.
PollPrinter(p, serial, counter) ==
  /\ place[p] # Gone /\ sending[SiteOf[p]] = NotSending /\ serial \in {SerialOf[p], NoSerial}
  /\ Overlap \/ \A q \in requests : q.site # SiteOf[p]
  /\ sending' = [sending EXCEPT ![SiteOf[p]] =
       [reading |-> [printer |-> p, host |-> place[p], serial |-> serial, counter |-> counter],
        attempts |-> 0]]
  /\ UNCHANGED <<place, requests, devices, later, stored, identified, moves, answers>>

BySerial(r) == {i \in DOMAIN devices : r.serial # NoSerial /\ devices[i].serial = r.serial}
\* The device seen last at an address, whoever's it is.
SeenLast(h) ==
  {i \in DOMAIN devices :
     /\ devices[i].host = h
     /\ \A j \in DOMAIN devices \ {i} : devices[j].host = h => <<i, j>> \in later}
AtHost(h) == IF SeenLast(h) = {} THEN NoDevice ELSE CHOOSE i \in SeenLast(h) : TRUE
\* Mutant: any device at the address.
Lookup_HostOnly(r) ==
  IF BySerial(r) # {} THEN CHOOSE i \in BySerial(r) : TRUE ELSE AtHost(r.host)
\* upsertDevice: by serial, else by address unless both serials are known.
Lookup(r) ==
  LET there == AtHost(r.host)
  IN IF BySerial(r) # {} THEN CHOOSE i \in BySerial(r) : TRUE
     ELSE IF there # NoDevice /\ (devices[there].serial = NoSerial \/ r.serial = NoSerial)
          THEN there ELSE NoDevice

\* SendMetrics: an attempt reaches the API, which looks the device up. One that
\* timed out at the agent may still be served while it is retried.
Attempt(c) ==
  /\ sending[c] # NotSending /\ sending[c].attempts < MaxAttempts
  /\ Overlap \/ \A q \in requests : q.site = c
  /\ sending' = [sending EXCEPT ![c].attempts = @ + 1]
  /\ requests' = requests \cup
       {[site |-> c, reading |-> sending[c].reading, device |-> Lookup(sending[c].reading),
         attempt |-> sending[c].attempts + 1]}
  /\ UNCHANGED <<place, devices, later, stored, identified, moves, answers>>

\* Mutant: a device is excluded only for where it was found.
NeedsReview_Network(r) == r.host \in Outside
NeedsReview(r) == r.host \in Outside \/ ~r.counter
NewRow(q) ==
  LET review == NeedsReview(q.reading)
  IN [serial |-> q.reading.serial, host |-> q.reading.host, customer |-> q.site,
      billingExcluded |-> review, reviewPending |-> review,
      confirmed |-> q.reading.host \notin Outside /\ q.reading.counter]
Seen(row, r) == [row EXCEPT !.host = r.host, !.serial = IF r.serial = NoSerial THEN @ ELSE r.serial]
SerialTaken(q) ==
  q.reading.serial # NoSerial
    /\ \E i \in DOMAIN devices : i # q.device /\ devices[i].serial = q.reading.serial

\* The device is updated or created and the reading stored; the answer is lost
\* or ends the sending. A report sent once more is stored once more.
Store(q, answered) ==
  /\ ~SerialTaken(q)
  /\ q.device = NoDevice => Len(devices) < MaxRows
  /\ LET i == IF q.device = NoDevice THEN Len(devices) + 1 ELSE q.device
         p == q.reading.printer
         h == q.reading.host
     IN /\ devices' = IF q.device = NoDevice THEN Append(devices, NewRow(q))
                   ELSE [devices EXCEPT ![i] = Seen(@, q.reading)]
        /\ later' = {seen \in later : seen[2] # i} \cup {i} \X (DOMAIN devices \ {i})
        /\ stored' = [device |-> i, printer |-> p, sure |-> q.reading.serial # NoSerial \/ identified[h] = p]
        /\ identified' = IF q.reading.serial = NoSerial THEN identified
                         ELSE [x \in Hosts |-> IF x = h THEN p ELSE IF identified[x] = p THEN NoOne ELSE identified[x]]
  /\ requests' = requests \ {q}
  /\ sending' = IF answered /\ sending[q.site].attempts = q.attempt /\ sending[q.site].reading = q.reading
                THEN [sending EXCEPT ![q.site] = NotSending] ELSE sending
  /\ UNCHANGED <<place, moves, answers>>
\* The unique serial number refuses the write, and the batch ends.
StoreFails(q) ==
  /\ SerialTaken(q)
  /\ requests' = requests \ {q}
  /\ UNCHANGED <<place, sending, devices, later, stored, identified, moves, answers>>
GiveUp(c) ==
  /\ sending[c] # NotSending /\ sending[c].attempts = MaxAttempts
  /\ sending' = [sending EXCEPT ![c] = NotSending]
  /\ UNCHANGED <<place, requests, devices, later, stored, identified, moves, answers>>

\* DevicesService.update: billed or not, which ends the review; another customer.
Decide(i, excluded) ==
  /\ answers < MaxAnswers /\ answers' = answers + 1
  /\ devices' = [devices EXCEPT ![i].billingExcluded = excluded, ![i].reviewPending = FALSE,
                          ![i].confirmed = TRUE]
  /\ UNCHANGED <<place, sending, requests, later, stored, identified, moves>>
Assign(i, c) ==
  /\ answers < MaxAnswers /\ answers' = answers + 1
  /\ devices' = [devices EXCEPT ![i].customer = c]
  /\ UNCHANGED <<place, sending, requests, later, stored, identified, moves>>

FleetInit ==
  /\ place \in [Printers -> Hosts \cup {Gone}]
  /\ \A p, q \in Printers : p # q /\ SiteOf[p] = SiteOf[q] /\ place[p] = place[q] => place[p] = Gone
  /\ sending = [c \in Customers |-> NotSending] /\ requests = {} /\ devices = <<>> /\ later = {}
  /\ stored = NothingStored /\ identified = [h \in Hosts |-> NoOne] /\ moves = 0 /\ answers = 0
FleetNext ==
  \/ \E p \in Printers, h \in Hosts \cup {Gone} : MovePrinter(p, h)
  \/ \E p \in Printers, s \in Serials, k \in BOOLEAN : PollPrinter(p, s, k)
  \/ \E c \in Customers : Attempt(c) \/ GiveUp(c)
  \/ \E q \in requests : StoreFails(q) \/ \E answered \in BOOLEAN : Store(q, answered)
  \/ \E i \in DOMAIN devices, excluded \in BOOLEAN : Decide(i, excluded)
  \/ \E i \in DOMAIN devices, c \in Customers \cup {NoOne} : Assign(i, c)
FleetSpec == FleetInit /\ [][FleetNext]_fvars
-----------------------------------------------------------------------------
FleetTypeOK ==
  /\ place \in [Printers -> Hosts \cup {Gone}]
  /\ \A c \in Customers : sending[c] = NotSending \/ sending[c] \in [reading : Reading, attempts : 0 .. MaxAttempts]
  /\ requests \subseteq [site : Customers, reading : Reading, device : 0 .. MaxRows, attempt : 1 .. MaxAttempts]
  /\ devices \in Seq(Row) /\ Len(devices) <= MaxRows
  /\ later \subseteq (DOMAIN devices) \X (DOMAIN devices)
  /\ \A i, j \in DOMAIN devices : i # j => (<<i, j>> \in later <=> <<j, i>> \notin later)
  /\ stored = NothingStored \/ stored \in [device : DOMAIN devices, printer : Printers, sure : BOOLEAN]
  /\ identified \in [Hosts -> Printers \cup {NoOne}]
  /\ \A i \in DOMAIN devices : devices[i].reviewPending => devices[i].billingExcluded
  /\ \A i, j \in DOMAIN devices : devices[i].serial = devices[j].serial => i = j \/ devices[i].serial = NoSerial

(* Two machines' counters are never conflated (upsertDevice: "the two       *)
(* devices' real histories would be permanently merged under one id"): a    *)
(* reading that gave its serial, or whose machine was the last to give one  *)
(* at that address, is stored under that machine's device, and no device    *)
(* becomes another machine's, across swaps, moves, failed reads and reports *)
(* sent twice.                                                              *)
MachinesStayApart ==
  [][/\ stored'.sure => devices'[stored'.device].serial = SerialOf[stored'.printer]
     /\ \A i \in DOMAIN devices : devices[i].serial \in {NoSerial, devices'[i].serial}]_fvars

(* "That decision was already made": no report puts a device back under     *)
(* review, or changes whether and for whom it is billed.                    *)
DecisionsStand ==
  [][\A i \in DOMAIN devices :
       /\ devices'[i].reviewPending => devices[i].reviewPending
       /\ requests' # requests =>
            /\ devices'[i].billingExcluded = devices[i].billingExcluded
            /\ devices'[i].customer = devices[i].customer]_fvars

(* No device is billed blind ("like SE's 4 ghost devices"): one found       *)
(* outside its agent's network, or without a counter, is not billed until   *)
(* staff said so, whatever is reported about it later.                      *)
NoneBilledBlind ==
  \A i \in DOMAIN devices : devices[i].billingExcluded \/ devices[i].confirmed

(* A device is billed only as staff left it, once they had to be asked.     *)
ReviewStands == [][NoneBilledBlind']_fvars /\ DecisionsStand

(* "A newly discovered device is tagged with the right customer from its    *)
(* very first ingest, no manual sorting needed" (ingest.service.ts): its    *)
(* readings are under a device of its customer unless staff moved it.       *)
TaggedFromTheFirst ==
  answers = 0 /\ stored # NothingStored => devices[stored.device].customer = SiteOf[stored.printer]
=============================================================================
