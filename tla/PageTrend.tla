------------------------------ MODULE PageTrend ------------------------------
(* The pages a printer printed on each day of a window                      *)
(* (api/src/devices/devices.service.ts), twice: deviceDailyPageDeltas, over *)
(* every reading of one printer, and fleetPageTrend, over what the database *)
(* leaves of a day.  A history grows by one reading a step; the properties  *)
(* compare the two on every history.                                        *)
EXTENDS Counters, FiniteSets

CONSTANTS
  DayLength,     \* instants in a day
  TrendStart,    \* the first instant after which the window's readings lie
  TrendEnd,      \* the instant of the request
  EngineReadings, PrintedReadings,  \* what the two counters may read
  MaxReadings    \* bound on the history

VARIABLES
  readings       \* the printer's metrics in the order of collectedAt

NotRead == -1
\* Page counters that were read are stored, or neither is (ingest).
PageReading ==
  {r \in [at : 0 .. TrendEnd, engine : EngineReadings \cup {NotRead},
          printed : PrintedReadings \cup {NotRead}] :
     r.engine = NotRead => r.printed = NotRead}

ASSUME PageTrendAssumption ==
  /\ DayLength \in Nat \ {0} /\ TrendEnd \in Nat /\ TrendStart \in 0 .. TrendEnd
  /\ EngineReadings \subseteq Nat \ {0} /\ PrintedReadings \subseteq Nat
  /\ MaxReadings \in Nat

PageTrendInit == readings = <<>>
StoreReading(r) ==
  /\ Len(readings) < MaxReadings
  /\ readings # <<>> => Last(readings).at < r.at
  /\ readings' = Append(readings, r)
PageTrendNext == \E r \in PageReading : StoreReading(r)
PageTrendSpec == PageTrendInit /\ [][PageTrendNext]_readings
-----------------------------------------------------------------------------
Day(at) == 1 + at \div DayLength
DayOf(i) == Day(readings[i].at)
WasRead(i) == readings[i].engine # NotRead
HasPrinted(i) == WasRead(i) /\ readings[i].printed # NotRead
\* The last reading up to the window's start, and those of the window.
Before == {i \in DOMAIN readings : WasRead(i) /\ readings[i].at <= TrendStart}
Earlier == IF Before = {} THEN {} ELSE {Max(Before)}
Inside == {i \in DOMAIN readings : WasRead(i) /\ readings[i].at > TrendStart}

\* bucketDeltas over one value a day: nothing for the first day that is kept.
Deltas(daily) ==
  LET kept == Filtered(daily, "value")
  IN [k \in 1 .. Len(kept) - 1 |->
        [day |-> kept[k + 1].day, pages |-> Hop(kept[k].value, kept[k + 1].value)]]

\* deviceDailyPageDeltas: the printed counter when two readings have it; the
\* last reading of each day.
Sequence == Earlier \cup Inside
Printed == {i \in Sequence : HasPrinted(i)}
UsesPrinted == Cardinality(Printed) >= 2
Source == IF UsesPrinted THEN Printed ELSE Sequence
ValueOf(i) == IF UsesPrinted THEN readings[i].printed ELSE readings[i].engine
LastOfDays == {i \in Source : \A j \in Source : DayOf(j) = DayOf(i) => j <= i}
Daily == Chosen([i \in DOMAIN readings |-> [day |-> DayOf(i), value |-> ValueOf(i)]], LastOfDays)
PageDeltas == Deltas(Daily)

LastOf(S, counter) == IF S = {} THEN NotRead ELSE readings[Max(S)][counter]
\* Mutant: a day's row replaces the baseline's altogether.
DayRow_Fresh(day) ==
  LET inDay == {i \in Inside : DayOf(i) = day}
      rows == IF inDay # {} THEN inDay ELSE {i \in Earlier : DayOf(i) = day}
  IN [engine |-> LastOf(rows, "engine"), printed |-> LastOf({i \in rows : HasPrinted(i)}, "printed")]
\* fleetPageTrend's SQL and its merge: one row for the baseline, one for each
\* day of the window with a reading; on the baseline's own day the row wins,
\* but for a printed counter that it lacks.
DayRow(day) ==
  LET inDay == {i \in Inside : DayOf(i) = day}
      withPrinted == {i \in inDay : HasPrinted(i)}
      onBaseDay == {i \in Earlier : DayOf(i) = day}
  IN [engine |-> LastOf(IF inDay # {} THEN inDay ELSE onBaseDay, "engine"),
      printed |-> LastOf(IF withPrinted # {} THEN withPrinted ELSE onBaseDay, "printed")]
FleetDaily ==
  LET printedCount == Cardinality({i \in Earlier : HasPrinted(i)}) + Cardinality({i \in Inside : HasPrinted(i)})
      daily == [d \in 1 .. Day(TrendEnd) |->
                 [day |-> d, value |-> IF printedCount >= 2 THEN DayRow(d).printed ELSE DayRow(d).engine]]
  IN Chosen(daily, {d \in DOMAIN daily : daily[d].value # NotRead})
FleetDeltas == Deltas(FleetDaily)
-----------------------------------------------------------------------------
(* "Same result as running deviceDailyPageDeltas per device"                *)
(* (fleetPageTrend): for every history of full, partial and missing         *)
(* readings, resets and low ones among them, the fleet's chart and the      *)
(* printer's own show the same pages on the same days.                      *)
FleetTrendAgrees == FleetDeltas = PageDeltas

(* While the billed counter never falls, the chart neither loses nor        *)
(* repeats a page: the days of the window add up to what the counter rose   *)
(* from the first day with a value to the last (bucketDeltas).              *)
TrendAddsUp ==
  LET firstDay == {i \in Source : DayOf(i) = DayOf(Min(Source))}
  IN Source # {} /\ (\A i, j \in Source : i < j => ValueOf(i) <= ValueOf(j)) =>
       Total([k \in DOMAIN PageDeltas |-> PageDeltas[k].pages])
         = ValueOf(Max(Source)) - ValueOf(Max(firstDay))

(* Both charts show the same and what they show adds up.                    *)
TrendSound == FleetTrendAgrees /\ TrendAddsUp
=============================================================================
