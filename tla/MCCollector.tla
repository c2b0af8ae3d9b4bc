---------------------------- MODULE MCCollector ----------------------------
(* The hosts that the Collector meets in TLC.                               *)
EXTENDS Collector

\* Every kind of host, with no marker, one, one that reads an unreadable zero,
\* or three, and with two supplies or none; SNMPv1 knows no GETBULK, and only
\* there it matters whether a scalar other than the serial number is missing.
MCSnmpDevices ==
  {d \in [bulk : {"rows", "none", "silent"}, next : BOOLEAN, get : BOOLEAN, v1 : BOOLEAN,
          serial : BOOLEAN, complete : BOOLEAN, counts : {<<>>, <<5>>, <<0>>, <<5, 5, 4>>}, split : BOOLEAN,
          levels : {<<>>, <<3, 4>>}] :
     IF d.v1 THEN d.bulk = "silent" /\ ~d.split /\ (d.complete => d.serial)
     ELSE d.complete = d.serial}
=============================================================================
