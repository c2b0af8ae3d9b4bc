--------------------------- MODULE SupplyForecast ---------------------------
(* When the supplies of a printer run out: forecastSupply                   *)
(* (api/src/common/supply-forecast.util.ts) over every reading of one       *)
(* printer (supplyForecast of devices.service.ts), and over the few         *)
(* readings that forecastInputs has the database pick for the whole fleet.  *)
(* A history grows by one reading a step; the properties compare the two.   *)
EXTENDS Counters

CONSTANTS
  Supplies,      \* the printer's supplies
  Percents,      \* what a level may be, in percent
  JumpThreshold, \* REPLACEMENT_JUMP_THRESHOLD, also PREMATURE_LEFTOVER_THRESHOLD
  MinSpan,       \* MIN_SPAN_DAYS
  MaxReports     \* bound on the history

VARIABLES
  reports        \* the levels reported each day; a supply may be missing

Missing == -1
Report == [Supplies -> Percents \cup {Missing}]

ASSUME SupplyForecastAssumption ==
  Percents \subseteq Int \ {Missing} /\ JumpThreshold \in Nat \ {0} /\ {MinSpan, MaxReports} \subseteq Nat

SupplyForecastInit == reports = <<>>
StoreReport(r) == Len(reports) < MaxReports /\ reports' = Append(reports, r)
SupplyForecastNext == \E r \in Report : StoreReport(r)
SupplyForecastSpec == SupplyForecastInit /\ [][SupplyForecastNext]_reports
-----------------------------------------------------------------------------
Has(d, i) == reports[i][d] # Missing
Levels(d) == [i \in DOMAIN reports |-> [at |-> i, percent |-> reports[i][d]]]
\* groupSupplyReadings: every reading that has the supply.
Readings(d) == Chosen(Levels(d), {i \in DOMAIN reports : Has(d, i)})

Jumps(s) == {k \in 2 .. Len(s) : s[k].percent - s[k - 1].percent >= JumpThreshold}
SegmentStart(s) == IF Jumps(s) = {} THEN 1 ELSE Max(Jumps(s))
\* forecastSupply: the rate is drop percent in span days; Missing for none.
Forecast(s) ==
  LET start == SegmentStart(s)
      span == Last(s).at - s[start].at
      drop == s[start].percent - Last(s).percent
  IN [current |-> Last(s).percent,
      rate |-> IF start < Len(s) /\ span >= MinSpan /\ drop > 0
               THEN [drop |-> drop, span |-> span] ELSE [drop |-> 0, span |-> 0],
      leftover |-> IF Jumps(s) = {} THEN Missing ELSE s[Max(Jumps(s)) - 1].percent,
      premature |-> Jumps(s) # {} /\ s[Max(Jumps(s)) - 1].percent > JumpThreshold]

\* Mutant: of equal reports in a row only the first is kept.
OfRun_First(i) == i = 1 \/ reports[i] # reports[i - 1]
\* forecastInputs: of equal reports in a row only the first and the last.
OfRun(i) ==
  \/ i = 1 \/ i = Len(reports)
  \/ reports[i] # reports[i - 1] \/ reports[i] # reports[i + 1]
\* Of those with the supply the last one, and the last replacement and the
\* reading before it, or the first one if there is no replacement.
PickedReadings(d) ==
  LET rows == Chosen(Levels(d), {i \in DOMAIN reports : OfRun(i) /\ Has(d, i)})
      start == SegmentStart(rows)
  IN Chosen(rows, {Len(rows), start, start - 1} \cap DOMAIN rows)

Reported == {d \in Supplies : \E i \in DOMAIN reports : Has(d, i)}
\* The level crept up by as much as a replacement since the last one.
CreptUp(d) ==
  LET s == Readings(d)
  IN Last(s).percent - s[SegmentStart(s)].percent >= JumpThreshold /\ SegmentStart(s) < Len(s)
-----------------------------------------------------------------------------
(* "its result is identical" (forecastInputs): the fleet's list and the     *)
(* printer's own page forecast the same for every history.                  *)
FleetForecastAgrees == \A d \in Reported : Forecast(PickedReadings(d)) = Forecast(Readings(d))

(* The same, for every history in which no level crept up by as much as a   *)
(* replacement without one (forecastInputs): dropping equal reports and all *)
(* but four readings loses no replacement, rate or leftover.                *)
ForecastsAgree ==
  \A d \in Reported : ~CreptUp(d) => Forecast(PickedReadings(d)) = Forecast(Readings(d))

(* A replacement is never blended into a rate ("Blending pre- and post-     *)
(* replacement readings into one trend would produce nonsense",             *)
(* supply-forecast.util.ts): a rate is only forecast from levels with no    *)
(* jump between them, and never faster than the whole supply.               *)
RateWithinOneCartridge ==
  \A d \in Reported :
    LET s == Readings(d)
        f == Forecast(s)
    IN f.rate.drop > 0 =>
         /\ f.rate.span >= MinSpan /\ f.current + f.rate.drop <= 100
         /\ \A k \in 2 .. Len(s) :
              s[k].at > Last(s).at - f.rate.span => s[k].percent - s[k - 1].percent < JumpThreshold

(* The fleet's forecast is the printer's, and no rate spans a replacement.  *)
ForecastSound == ForecastsAgree /\ RateWithinOneCartridge
=============================================================================
