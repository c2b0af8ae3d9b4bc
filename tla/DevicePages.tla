----------------------------- MODULE DevicePages -----------------------------
(* The pages one printer is billed for (common/device-pages.service.ts with *)
(* common/counter.util.ts), over the readings its agent stores              *)
(* (ingest.service.ts).  A printer has an engine counter, every physical    *)
(* cycle, and, on some, a "printed" counter, of which a technician may      *)
(* reset the latter.  Mono and color are one number here, the combined one. *)
EXTENDS Counters

CONSTANTS
  Starts,       \* the first instant of each period, and of the one after the last
  Printers,     \* the printers considered, one at a time
  Installed     \* a printer's counters when it is first seen: [engine, printed]

VARIABLES
  printer,   \* which one: its counters, billEngineCounter, faults and bounds
  metrics,   \* the stored readings in the order of collectedAt
  engine,    \* the printer's engine counter
  printed,   \* its printed counter
  cycles, pages,  \* what the engine and the printer really did since it was installed
  manual,    \* Device.manualBaselineDate and manualBaselinePageCount
  dipped,    \* the last reading was a dip and no reading has recovered yet
  resets, now

counters == <<engine, printed, cycles, pages>>
vars == <<printer, metrics, counters, manual, dipped, resets, now>>

None == -1
\* What may happen to a printer: a poll reads no counter, or no printed one, or
\* a low one, or reads at a period's first instant; a counter or the device is
\* reset; staff enter a baseline.
AllFaults ==
  {"noCounter", "noSplit", "dip", "atStart", "splitReset", "deviceReset", "baseline"}
Printer ==
  [hasSplit : BOOLEAN, billEngine : BOOLEAN, faults : SUBSET AllFaults,
   maxCycles : Nat, maxResets : Nat]
NoManual == [at |-> None, count |-> 0, cycles |-> 0, pages |-> 0]
FirstInstants == {Starts[i] : i \in 1 .. Len(Starts)}
Periods == 1 .. (Len(Starts) - 1)
LastInstant == Starts[Len(Starts)]
BilledByEngine == printer.billEngine \/ ~printer.hasSplit
May(fault) == fault \in printer.faults

ASSUME PagesAssumption ==
  /\ Starts \in Seq(Nat) /\ Len(Starts) > 1
  /\ \A i, j \in 1 .. Len(Starts) : i < j => Starts[i] < Starts[j]
  /\ Printers \subseteq Printer
  /\ Installed \in [engine : Nat \ {0}, printed : Nat]
-----------------------------------------------------------------------------
\* sumWithResetHandling: after a drop the reading itself is what was counted.
EngineHop(a, b) == Hop(a.engine, b.engine)
EnginePages(s) == Total([i \in 1 .. Len(s) |-> IF i = 1 THEN 0 ELSE EngineHop(s[i - 1], s[i])])

\* The split loop, sumWithFallbackOnReset: a drop of the printed counter alone
\* is bridged by the engine's delta.  Mutant: by the engine's reading.
SplitHop_Reading(a, b) ==
  IF b.split >= a.split THEN b.split - a.split ELSE b.engine
SplitHop(a, b) ==
  IF b.split >= a.split THEN b.split - a.split
  ELSE IF ~a.manual /\ b.engine >= a.engine THEN b.engine - a.engine
  ELSE b.split
SplitPages(s) == Total([i \in 1 .. Len(s) |-> IF i = 1 THEN 0 ELSE SplitHop(s[i - 1], s[i])])

HasCounter(m) == m.engine # None
Upto(t) == {i \in 1 .. Len(metrics) : HasCounter(metrics[i]) /\ metrics[i].at <= t}
\* The last real reading not after the period's start, if any.
Baseline(start) == LET upto == Upto(start) IN {i \in upto : \A j \in upto : j <= i}

\* pagesInPeriod's manual baseline.  Mutant: whenever it is older than the period.
ManualValid_Always(start, end) == manual # NoManual /\ manual.at <= end
ManualValid(start, end) == Baseline(start) = {} /\ manual # NoManual /\ manual.at <= end
ManualRow ==
  [at |-> manual.at, engine |-> manual.count, split |-> manual.count, manual |-> TRUE,
   cycles |-> manual.cycles, pages |-> manual.pages]
WithManual(s, helps) == IF helps THEN <<ManualRow>> \o s ELSE s

\* pagesInPeriod.
PagesInPeriod(start, end) ==
  LET inPeriod == Baseline(start) \cup {i \in Upto(end) : start < metrics[i].at}
      readings == Chosen(metrics, inPeriod)
      real == IF printer.billEngine THEN <<>>
              ELSE Chosen(metrics, {i \in inPeriod : metrics[i].split # None})
      Helps(s) == ManualValid(start, end) /\ (s = <<>> \/ manual.at < s[1].at)
      split == WithManual(real, Helps(real))
      useSplit == Len(split) >= 2
  IN IF useSplit THEN SplitPages(Filtered(split, "split"))
     ELSE EnginePages(Filtered(WithManual(readings, Helps(readings)), "engine"))

Init ==
  /\ printer \in Printers
  /\ metrics = <<>>
  /\ engine = Installed.engine /\ printed = Installed.printed
  /\ cycles = 0 /\ pages = 0
  /\ manual = NoManual
  /\ dipped = FALSE
  /\ resets = 0 /\ now = 0

\* A page is printed; or the engine turns for none (cleaning, calibration).
PrintPage ==
  /\ cycles < printer.maxCycles
  /\ engine' = engine + 1 /\ cycles' = cycles + 1
  /\ \/ printed' = printed + 1 /\ pages' = pages + 1
     \/ UNCHANGED <<printed, pages>>
  /\ UNCHANGED <<printer, metrics, manual, dipped, resets, now>>

\* A technician resets the printed counter; or the board is swapped.
Reset ==
  /\ resets < printer.maxResets
  /\ resets' = resets + 1
  /\ printed' = 0
  /\ \/ May("splitReset") /\ UNCHANGED engine
     \/ May("deviceReset") /\ engine' = 0
  /\ UNCHANGED <<printer, metrics, cycles, pages, manual, dipped, now>>

\* ingest: a counter that is not above 0 is stored as no reading at all.
\* Mutant: a zero is stored as it is.
Stored_Zeros(e, s) ==
  [at |-> now, engine |-> e, split |-> s, manual |-> FALSE, cycles |-> cycles, pages |-> pages]
Stored(e, s) ==
  [at |-> now, engine |-> IF e > 0 THEN e ELSE None, split |-> IF e > 0 THEN s ELSE None,
   manual |-> FALSE, cycles |-> cycles, pages |-> pages]

\* PollAll and SendMetrics: a reading of the counters, or of a part of them.
MayPoll ==
  /\ \A i \in 1 .. Len(metrics) : metrics[i].at < now
  /\ now \in FirstInstants => May("atStart")
Split == IF printer.hasSplit THEN printed ELSE None
Poll ==
  /\ MayPoll
  /\ \/ metrics' = Append(metrics, Stored(engine, Split)) /\ dipped' = FALSE
     \/ /\ May("noCounter")
        /\ metrics' = Append(metrics, Stored(0, None)) /\ UNCHANGED dipped
     \/ /\ May("noSplit") /\ printer.hasSplit
        /\ metrics' = Append(metrics, Stored(engine, None)) /\ dipped' = FALSE
  /\ UNCHANGED <<printer, counters, manual, resets, now>>

\* A transient glitch: the engine counter reads low.  It comes after a real
\* reading and recovers before the period ends, as the filter takes for granted.
PollDip ==
  /\ MayPoll /\ May("dip")
  /\ Upto(now) # {} /\ now + 1 \notin FirstInstants
  /\ metrics' = Append(metrics, Stored(1, None)) /\ dipped' = TRUE
  /\ UNCHANGED <<printer, counters, manual, resets, now>>

\* Staff enter what the counter reads today, once, before the agent's first reading.
SetBaseline ==
  /\ May("baseline")
  /\ manual = NoManual
  /\ manual' = [at |-> now, count |-> IF BilledByEngine THEN engine ELSE printed,
                cycles |-> cycles, pages |-> pages]
  /\ UNCHANGED <<printer, metrics, counters, dipped, resets, now>>

Tick ==
  /\ now < LastInstant
  /\ dipped => now + 1 \notin FirstInstants
  /\ now' = now + 1
  /\ UNCHANGED <<printer, metrics, counters, manual, dipped, resets>>

Next == PrintPage \/ Reset \/ Poll \/ PollDip \/ SetBaseline \/ Tick
Spec == Init /\ [][Next]_vars
-----------------------------------------------------------------------------
(* Type correctness: readings come in the order of their instants, and a    *)
(* stored counter is never the zero of a poll that could not read it.       *)
PagesTypeOK ==
  /\ printer \in Printers
  /\ metrics \in Seq([at : 0 .. LastInstant, engine : (Nat \ {0}) \cup {None},
                      split : Nat \cup {None}, manual : {FALSE}, cycles : Nat, pages : Nat])
  /\ \A i, j \in 1 .. Len(metrics) : i < j => metrics[i].at < metrics[j].at
  /\ {engine, printed, cycles, pages, resets} \subseteq Nat
  /\ manual \in [at : 0 .. LastInstant \cup {None}, count : Nat, cycles : Nat, pages : Nat]
  /\ dipped \in BOOLEAN /\ now \in 0 .. LastInstant

Closed(p) == Starts[p + 1] <= now
ClosedPeriods == {p \in Periods : Closed(p)}
BilledIn(p) == PagesInPeriod(Starts[p], Starts[p + 1] - 1)
Billed == Total([p \in Periods |-> IF Closed(p) THEN BilledIn(p) ELSE 0])

\* What billing counts from: the reading before the first period, the manual
\* baseline when it is older than every reading, or the first reading.
Counted == Upto(Starts[Max(ClosedPeriods) + 1] - 1)
Anchor ==
  IF Baseline(Starts[1]) # {} THEN metrics[Max(Baseline(Starts[1]))]
  ELSE IF manual # NoManual /\ manual.at < metrics[Min(Counted)].at THEN ManualRow
  ELSE metrics[Min(Counted)]
Really(m) == IF BilledByEngine THEN m.cycles ELSE m.pages

\* A printed counter that is missing from some polls leaves gaps, as does a
\* reading at a period's first instant.
Steady == printer.faults \subseteq {"noCounter", "dip", "baseline"}

(* The bill adds up: while no counter is reset, what two readings bracket   *)
(* is billed in exactly one of the consecutive periods, whatever polls in   *)
(* between read no counter or a low one (resolveBilling's per-device pages).*)
BilledOnce ==
  (Steady /\ ClosedPeriods # {} /\ Counted # {}) =>
    Billed = Really(metrics[Max(Counted)]) - Really(Anchor)

(* "silently overbills instead of undercounting" is the failure mode the    *)
(* reset handling fears (device-pages.service.ts:257): whatever is reset or *)
(* unread, all periods together never bill more than the engine's cycles    *)
(* between the first reading and the last.                                  *)
NeverOverbilled ==
  (ClosedPeriods # {} /\ Counted # {}) =>
    Billed <= metrics[Max(Counted)].cycles - Anchor.cycles
=============================================================================
