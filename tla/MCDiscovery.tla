---------------------------- MODULE MCDiscovery ----------------------------
(* The sites that the agent searches for printers in TLC.                   *)
EXTENDS Discovery

\* Sixteen addresses in four /24s, the last of them public.  What there is at
\* an address: nothing; a printer; one without SNMP but with a page, also one
\* for labels; one with a community of its own; one that speaks only version 1;
\* another device.
Off == [snmp |-> NoCommunity, versions |-> {}, printer |-> FALSE, up |-> FALSE, page |-> "none"]
Printing == [snmp |-> "public", versions |-> {1, 2}, printer |-> TRUE, up |-> TRUE, page |-> "office"]
Page == [Off EXCEPT !.up = TRUE, !.page = "office", !.printer = TRUE]
Label == [Page EXCEPT !.page = "label"]
Secret == [Printing EXCEPT !.snmp = "site"]
Old == [Printing EXCEPT !.versions = {1}]
Switch == [Printing EXCEPT !.printer = FALSE]
Block(b) == 4 * b .. 4 * b + 3
Lan(v) == [net |-> Block(v), virtual |-> FALSE]
\* The agent is on the first /24, and on a virtual one or not; the panel, Active
\* Directory, the routes, a print server's ports and its queues name the others.
Installed(interfaces, panel) ==
  [ranges : {{}}, interfaces : {interfaces}, panel : panel,
   adNets : {{}, {Block(1)}},
   routes : {{Block(2), Block(3)}},
   ports : {{}, {[host |-> 6, community |-> "site"]}, {[host |-> 13, community |-> NoCommunity]}},
   queues : {{5}},
   hosts : {[h \in 0 .. 15 |->
               CASE h \in {1, 14} -> Printing [] h = 5 -> k[1] [] h = 6 -> k[2]
                 [] h = 9 -> Page [] OTHER -> Off] :
              k \in {<<Printing, Secret>>, <<Page, Label>>, <<Old, Switch>>}}]
MCSites == Installed({Lan(0)}, {{{5}}, {4 .. 11}})
             \cup Installed({Lan(0), [Lan(2) EXCEPT !.virtual = TRUE]}, {{}})
MCPrivate == 0 .. 11
=============================================================================
