----------------------------- MODULE Discovery -----------------------------
(* A sweep for printers (agent/internal/discovery, Run) and what it adds to *)
(* the polled devices (config.MergeDevices). A sweep gathers its targets    *)
(* from the host's networks, the panel, Active Directory, the routing table,*)
(* print servers' ports and the printers known already; probes them over    *)
(* SNMP; tries named printers that stayed silent over TCP and with other    *)
(* communities, and silent addresses close by on tcp/9100. An address is a  *)
(* number and a network a set of addresses; a site is a record of the       *)
(* networks and printers that each source names, and hosts is what there is *)
(* at an address: the community and versions of SNMP it answers, whether it *)
(* is a printer, whether it is up and what its web page says.               *)
EXTENDS Integers, FiniteSets, FiniteSetsExt, Functions

CONSTANTS
  Sites,         \* what the agent may be installed into, see IsSite
  Private,       \* RFC 1918 addresses
  BlockSize,     \* addresses of a /24
  MaxDetected,   \* addresses of a /20, autoDetectMaxPrefix
  MinAuto,       \* addresses of a /30
  MaxAuto,       \* addresses of a /16, autoNetMinPrefix
  SmallNet,      \* jetdirectSmallNet
  MaxNeighbours, \* maxAutoNeighborNets
  MaxAddresses,  \* maxJetdirectAddresses
  Communities,   \* SNMP communities
  Default,       \* the configured SNMP community
  Fallback,      \* fallbackCommunities
  MaxLostReplies, \* bound on SNMP probes that fail though the network is up
  MaxLookups      \* bound on the host's lookups that fail

VARIABLES
  site,      \* where it is installed
  polling,   \* what the agent polls: by host, how
  stage,     \* how far Run is: "idle", "probe", "named", "silent", "merge"
  targets,   \* addresses to probe: by host, community and whether it is named
  scope,     \* networks for the check of tcp/9100, from jetdirectScope
  found,     \* printers this sweep found
  silent,    \* named targets with no SNMP reply
  timedOut,  \* other targets with no SNMP reply
  dialed,    \* addresses dialed over TCP since the start of the sweep
  lostReplies, lookups  \* faults so far
dvars == <<site, polling, stage, targets, scope, found, silent, timedOut, dialed, lostReplies, lookups>>

Addresses == DOMAIN site.hosts
NoCommunity == "none"
\* config.Device, by host: a printer without SNMP may have a model from its page.
Device == [community : Communities, noSNMP : BOOLEAN, model : BOOLEAN]
Target == [community : Communities, named : BOOLEAN]

\* A site: its networks and named printers are at its addresses. RFC 1918's
\* ranges are whole /24s.
IsSite(s) ==
  LET addresses == DOMAIN s.hosts
  IN /\ addresses \subseteq Nat
     /\ \A n \in s.ranges \cup s.panel \cup s.adNets \cup s.routes : n \subseteq addresses
     /\ \A i \in s.interfaces : i.net \subseteq addresses
     /\ \A p \in s.ports : p.host \in addresses /\ p.community \in Communities \cup {NoCommunity}
     /\ s.queues \subseteq addresses
     /\ \A h \in addresses \cap Private, a \in addresses :
          a \div BlockSize = h \div BlockSize => a \in Private
ASSUME DiscoveryAssumption ==
  /\ \A s \in Sites : IsSite(s)
  /\ Default \in Communities /\ Fallback \subseteq Communities
  /\ {BlockSize, MaxLostReplies, MaxLookups} \subseteq Nat /\ BlockSize > 0
-----------------------------------------------------------------------------
\* localSubnets, unless config.yaml has ranges: real adapters, up to a /20.
OwnNets ==
  IF site.ranges # {} THEN site.ranges
  ELSE {i.net : i \in {j \in site.interfaces : ~j.virtual /\ Cardinality(j.net) <= MaxDetected}}

\* hostsIn: all but the network and broadcast addresses.
HostsIn(n) == IF Cardinality(n) > 2 THEN n \ {Min(n), Max(n)} ELSE n
HostsOf(nets) == UNION {HostsIn(n) : n \in nets}
CoveredBy(n, nets) == \E c \in nets : n \subseteq c
Slash24(h) == {a \in Addresses : a \div BlockSize = h \div BlockSize}

\* pickAutoNets: private, between a /16 and a /30, not swept already. Which of
\* two that overlap is met first is not told apart: sites name disjoint ones.
PickAutoNets(covered, nets) ==
  {n \in nets : n \subseteq Private /\ Cardinality(n) \in MinAuto .. MaxAuto /\ ~CoveredBy(n, covered)}
\* autoNetworks: Active Directory's subnets, then the routes that are not those
\* of the host's own adapters, virtual or not; none where the lookup failed.
AutoNetworks(covered, adNets, routes) ==
  LET ad == PickAutoNets(covered, adNets)
  IN ad \cup PickAutoNets(covered \cup ad \cup {i.net : i \in site.interfaces}, routes)

\* Mutant: an address is as good a hint on a public network.
Near_Public(hints, covered) == {Slash24(h) : h \in {k \in hints : ~CoveredBy(Slash24(k), covered)}}
\* neighborNets: the private /24s of the hints, not swept already ...
Near(hints, covered) ==
  {Slash24(h) : h \in {k \in hints : k \in Private /\ ~CoveredBy(Slash24(k), covered)}}
\* ... those with the most hints (named is one, known to the agent another).
\* The order of equals, by their text, is left open.
NeighbourNets(named, known, covered) ==
  LET nets == Near(named \cup known, covered)
      Hints(n) == Cardinality(n \cap named) + Cardinality(n \cap known)
  IN {chosen \in SUBSET nets :
        /\ Cardinality(chosen) = Min({Cardinality(nets), MaxNeighbours})
        /\ \A n \in chosen, m \in nets \ chosen : Hints(n) >= Hints(m)}

\* mergeTargets: the later community wins, a label stays.
MergeTargets(base, extra) ==
  [h \in DOMAIN base \cup DOMAIN extra |->
     IF h \notin DOMAIN extra THEN base[h]
     ELSE [extra[h] EXCEPT !.named = @ \/ (h \in DOMAIN base /\ base[h].named)]]
Sweep(hosts) == [h \in hosts |-> [community |-> Default, named |-> FALSE]]
\* portTargets: named targets, with the port's community if it has one.
PortTargets(ports) ==
  [h \in {p.host : p \in ports} |->
     LET own == (CHOOSE p \in ports : p.host = h).community
     IN [community |-> IF own = NoCommunity THEN Default ELSE own, named |-> TRUE]]
QueuePorts == {[host |-> h, community |-> NoCommunity] : h \in site.queues}

JetdirectScope(near, others) == OwnNets \cup near \cup {n \in others : Cardinality(n) <= SmallNet}

\* Run, up to the probes.  It asks Active Directory twice, for the subnets and
\* for the print queues, and the host for its routes; each may fail alone.
Lookups == {"subnets", "routes", "queues"}
BeginSweep(failed) ==
  /\ stage = "idle"
  /\ lookups + Cardinality(failed) <= MaxLookups
  /\ lookups' = lookups + Cardinality(failed)
  /\ LET Told(lookup, nets) == IF lookup \in failed THEN {} ELSE nets
         auto == AutoNetworks(OwnNets \cup site.panel, Told("subnets", site.adNets),
                              Told("routes", site.routes))
         swept == OwnNets \cup site.panel \cup auto
         ports == MergeTargets(Sweep(HostsOf(swept)), PortTargets(site.ports))
         all == MergeTargets(ports, PortTargets(Told("queues", QueuePorts)))
     IN \E near \in NeighbourNets({h \in DOMAIN all : all[h].named}, DOMAIN polling, swept) :
          /\ targets' = MergeTargets(all, Sweep(HostsOf(near)))
          /\ scope' = JetdirectScope(near, site.panel \cup auto)
  /\ stage' = "probe" /\ found' = {} /\ dialed' = {}
  /\ UNCHANGED <<site, polling, silent, timedOut, lostReplies>>

\* probeHost asks in version 2c.
Answers(h, community) == site.hosts[h].snmp = community /\ 2 \in site.hosts[h].versions
Printer(h) == site.hosts[h].printer
Found(h, community) == [host |-> h, community |-> community, noSNMP |-> FALSE, model |-> FALSE]
WithoutSNMP(h, community, model) ==
  [host |-> h, community |-> community, noSNMP |-> TRUE, model |-> model]

\* probeAll and probeHost: the replies in missed are lost, also when asked again,
\* or the probe fails with another error, which nothing looks into unless the
\* target is a named one.
ProbeAll(missed, failed) ==
  /\ stage = "probe"
  /\ lostReplies' = lostReplies + Cardinality(missed)
  /\ LET heard == {h \in DOMAIN targets \ missed : Answers(h, targets[h].community)}
         quiet == DOMAIN targets \ heard
     IN /\ found' = {Found(h, targets[h].community) : h \in {k \in heard : Printer(k)}}
        /\ silent' = {h \in quiet : targets[h].named}
        /\ timedOut' = {h \in quiet \ failed : ~targets[h].named}
  /\ stage' = "named"
  /\ UNCHANGED <<site, polling, targets, scope, dialed, lookups>>

\* findSNMPAccess: the other communities in version 2c, all of them in version 1.
AccessTo(h) ==
  /\ Printer(h)
  /\ \/ 2 \in site.hosts[h].versions /\ site.hosts[h].snmp \in Fallback \ {targets[h].community}
     \/ 1 \in site.hosts[h].versions /\ site.hosts[h].snmp \in Fallback \cup {targets[h].community}
\* aliveWithoutSNMP: a label printer's page names a model as well as another's.
CheckNamed ==
  /\ stage = "named"
  /\ LET up == {h \in silent : site.hosts[h].up}
     IN found' = found \cup
          {IF AccessTo(h) THEN Found(h, site.hosts[h].snmp)
           ELSE WithoutSNMP(h, targets[h].community, site.hosts[h].page # "none") : h \in up}
  /\ dialed' = dialed \cup silent
  /\ stage' = "silent"
  /\ UNCHANGED <<site, polling, targets, scope, silent, timedOut, lostReplies, lookups>>

\* jetdirectCandidates and jetdirectPrinters: in the order of the replies, so
\* any of them when there are more than the cap; label printers are left out.
CheckSilent ==
  /\ stage = "silent"
  /\ LET known == {d.host : d \in found} \cup silent \cup DOMAIN polling
         near == {h \in timedOut : h \notin known /\ \E n \in scope : h \in n}
     IN \E candidates \in kSubset(Min({Cardinality(near), MaxAddresses}), near) :
          /\ dialed' = dialed \cup candidates
          /\ found' = found \cup
               {WithoutSNMP(h, Default, TRUE) :
                  h \in {k \in candidates : site.hosts[k].up /\ site.hosts[k].page = "office"}}
  /\ stage' = "merge"
  /\ UNCHANGED <<site, polling, targets, scope, silent, timedOut, lostReplies, lookups>>

\* Mutant: what a sweep found replaces what is polled.
Replaces_Always(d) == TRUE
\* MergeDevices: what replaces a device that is polled already.
Replaces(d) ==
  LET old == polling[d.host]
  IN old.noSNMP /\ (~d.noSNMP \/ (d.model /\ ~old.model))
EndSweep ==
  /\ stage = "merge"
  /\ LET added == {d \in found : d.host \notin DOMAIN polling \/ Replaces(d)}
         New(h) == CHOOSE d \in added : d.host = h
         Entry(d) == [community |-> d.community, noSNMP |-> d.noSNMP, model |-> d.model]
     IN polling' = [h \in DOMAIN polling \cup {d.host : d \in added} |->
                      IF \E d \in added : d.host = h THEN Entry(New(h)) ELSE polling[h]]
  /\ stage' = "idle" /\ targets' = <<>> /\ found' = {} /\ silent' = {} /\ timedOut' = {}
  /\ UNCHANGED <<site, scope, dialed, lostReplies, lookups>>

DiscoveryInit ==
  /\ site \in Sites
  /\ polling = <<>> /\ stage = "idle" /\ targets = <<>> /\ scope = {} /\ found = {}
  /\ silent = {} /\ timedOut = {} /\ dialed = {} /\ lostReplies = 0 /\ lookups = 0
DiscoveryNext ==
  \/ \E failed \in SUBSET Lookups : BeginSweep(failed)
  \/ \E n \in 0 .. MaxLostReplies - lostReplies :
       \E missed \in kSubset(n, DOMAIN targets) : \E failed \in SUBSET missed : ProbeAll(missed, failed)
  \/ CheckNamed \/ CheckSilent \/ EndSweep
DiscoverySpec == DiscoveryInit /\ [][DiscoveryNext]_dvars
\* The agent sweeps once a day for good, and a sweep's stages end.
DiscoveryFairness == WF_dvars(DiscoveryNext)
DiscoveryFair == DiscoverySpec /\ DiscoveryFairness
-----------------------------------------------------------------------------
DiscoveryTypeOK ==
  /\ site \in Sites
  /\ DOMAIN polling \subseteq Addresses /\ \A h \in DOMAIN polling : polling[h] \in Device
  /\ DOMAIN targets \subseteq Addresses /\ \A h \in DOMAIN targets : targets[h] \in Target
  /\ stage \in {"idle", "probe", "named", "silent", "merge"}
  /\ \A n \in scope : n \subseteq Addresses
  /\ found \subseteq [host : DOMAIN targets, community : Communities, noSNMP : BOOLEAN, model : BOOLEAN]
  /\ silent \cup timedOut \subseteq DOMAIN targets /\ silent \cap timedOut = {}
  /\ dialed \subseteq Addresses
  /\ lostReplies \in 0 .. MaxLostReplies /\ lookups \in 0 .. MaxLookups

Named == {p.host : p \in site.ports} \cup site.queues
ConfiguredNets == UNION (site.ranges \cup site.panel \cup {i.net : i \in site.interfaces})

(* A sweep never leaves the site (neighbors.go: "a hint resolving to a      *)
(* public address must never turn into a sweep of someone else's network"): *)
(* every public address it probes was named by a source or configured.      *)
NoForeignSweep == DOMAIN targets \subseteq Private \cup Named \cup ConfiguredNets

(* TCP ports are only dialed on printers that a source named and on networks*)
(* close by, "never a panel-configured /16" (webid.go): an address dialed   *)
(* is named, on the host's own networks, on a small one that was swept, or  *)
(* shares a private /24 with a printer named or polled.                     *)
OnlyNearDialed ==
  \A h \in dialed :
    \/ h \in Named
    \/ \E n \in OwnNets \cup site.panel \cup site.adNets \cup site.routes :
         h \in n /\ (n \in OwnNets \/ Cardinality(n) <= SmallNet)
    \/ h \in Private /\ Slash24(h) \cap (Named \cup DOMAIN polling) # {}

(* A sweep probes and dials only where something pointed it to.             *)
ProbesStayNear == NoForeignSweep /\ OnlyNearDialed

(* A printer polled over SNMP is never lost by a later sweep that missed its*)
(* reply and took it for one without SNMP (MergeDevices).                   *)
SNMPNotForgotten ==
  [][\A h \in DOMAIN polling :
       h \in DOMAIN polling' /\ (~polling[h].noSNMP => polling'[h] = polling[h])]_polling

(* "If the port has its own community, it is used instead of the default"   *)
(* (agent/README.md): so the sweep probes it.                               *)
NamedKeepCommunity ==
  stage = "probe" =>
    \A p \in site.ports : p.community # NoCommunity => targets[p.host].community = p.community

\* The printers that sweeps can come to know, by rounds: what is swept given
\* what is polled, and which of it shows over SNMP, by name or by its page.
SweptGiven(polled) ==
  LET swept == OwnNets \cup site.panel
      auto == AutoNetworks(swept, site.adNets, site.routes)
      near == Near(Named \cup polled, swept \cup auto)
  IN [all |-> Named \cup HostsOf(swept \cup auto \cup near),
      near |-> HostsOf(JetdirectScope(near, site.panel \cup auto))]
SpeakSNMP(hosts) ==
  {h \in hosts : Printer(h) /\ Answers(h, Default) /\ \A p \in site.ports : p.host # h \/ p.community = NoCommunity}
ShownGiven(polled) ==
  LET swept == SweptGiven(polled)
  IN SpeakSNMP(swept.all) \cup {h \in Named : site.hosts[h].up /\ ~Answers(h, Default)}
     \cup {h \in swept.near : site.hosts[h].up /\ site.hosts[h].page = "office" /\ ~Answers(h, Default)}
Reachable ==
  LET printers == Cardinality({h \in Addresses : Printer(h)})
      round[n \in 0 .. printers] == IF n = 0 THEN {} ELSE round[n - 1] \cup ShownGiven(round[n - 1])
  IN round[printers]
\* Between two sweeps, as what is polled only changes at the end of one.
AllPolled ==
  stage = "idle" =>
  LET reachable == Reachable
  IN reachable \subseteq DOMAIN polling /\ \A h \in SpeakSNMP(reachable) : ~polling[h].noSNMP

(* "A single sweep can miss a real printer ... self-heals on the next       *)
(* scheduled sweep" (discovery.go): whatever replies and lookups were lost, *)
(* every printer that sweeps can reach, through others they found, is polled*)
(* in the end, and over SNMP if it speaks it.                               *)
EveryPrinterPolled == <>[]AllPolled
=============================================================================
