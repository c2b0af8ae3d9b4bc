------------------------------ MODULE MCFleet ------------------------------
(* Three machines, one of which reports no serial number, at one customer   *)
(* or at two whose networks use the same addresses.                         *)
EXTENDS Fleet

MCSerialOf == [p \in Printers |-> IF p = "c" THEN NoSerial ELSE p]
MCOneSite == [p \in Printers |-> "x"]
MCTwoSites == [p \in Printers |-> IF p = "c" THEN "y" ELSE "x"]
=============================================================================
