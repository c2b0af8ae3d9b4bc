---------------------------- MODULE MCDevicePages ----------------------------
(* A period of two instants and one of three after one of monitoring;       *)
(* printers with some mileage when they are installed.                      *)
EXTENDS DevicePages

StartsThree == <<1, 3, 6>>
MCInstalled == [engine |-> 3, printed |-> 2]

Colored(faults, life, reset) ==
  [hasSplit |-> TRUE, billEngine |-> FALSE, faults |-> faults,
   maxCycles |-> life, maxResets |-> reset]
\* With the printed counter; with the engine's alone; with both, billed by the
\* engine's; ones whose counters are reset; and one read at the first instants.
Fleet ==
  {Colored({"noCounter"}, 2, 0), Colored({"baseline"}, 2, 0),
   [Colored({"noCounter", "dip", "baseline"}, 2, 0) EXCEPT !.hasSplit = FALSE],
   [Colored({"baseline"}, 2, 0) EXCEPT !.billEngine = TRUE],
   Colored({"noSplit", "splitReset"}, 2, 1), Colored({"splitReset", "deviceReset"}, 2, 1),
   Colored({"atStart", "splitReset"}, 2, 1)}
\* One that misses its printed counter and was given a baseline.
PartlyRead == {Colored({"noSplit", "baseline"}, 3, 0)}
=============================================================================
