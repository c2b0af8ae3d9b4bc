------------------------------ MODULE Collector ------------------------------
(* One host polled by the agent's Collector over SNMP: the requests of       *)
(* pollDevice in their order, each of which the host may not support, lose to *)
(* the network after its retries, or find the poll's two minutes over. What   *)
(* the Collector remembers of a host lasts from one poll to the next.         *)
EXTENDS Integers, Sequences, FiniteSets, SequencesExt

CONSTANTS
  SnmpDevices,       \* what the host may be; see SnmpDevice
  MaxPolls, MaxCuts  \* bounds on polls, on requests lost or cut off

\* How the host answers GETBULK (with rows, with none, not at all), GETNEXT and
\* GET; whether it speaks only v1, has a serial number, and has every scalar
\* that a poll asks for; its markers' counters, whether it has HP's split, and
\* the levels of its supplies.
SnmpDevice == [bulk : {"rows", "none", "silent"}, next : BOOLEAN, get : BOOLEAN,
               v1 : BOOLEAN, serial : BOOLEAN, complete : BOOLEAN,
               counts : Seq(Int), split : BOOLEAN, levels : Seq(Nat)]
ASSUME CollectorAssumption ==
  /\ \A d \in SnmpDevices : d \in SnmpDevice /\ (d.v1 => d.bulk = "silent")
  /\ MaxPolls \in Nat /\ MaxCuts \in Nat

VARIABLES
  device,         \* the host, the same in every poll
  noBulkHost, vendorCaptured,  \* whether it is in c.noBulkHosts, c.vendorCaptured
  polls, cuts,    \* polls begun; requests lost or cut off, in all
  step,           \* the request of this poll that is next; 0 between polls
  noBulk, expired,\* session.noBulk, ctx.Err()
  read,           \* rows read of each table in this poll
  metric,         \* what else the poll has so far
  clean, wasted   \* history: no request of this poll was cut; GETBULKs for nothing
cvars == <<device, noBulkHost, vendorCaptured, polls, cuts, step, noBulk, expired,
           read, metric, clean, wasted>>

NoCount == -99  \* a nil PageCount
\* pollDevice's requests. Of each table's columns those that differ in what a
\* missing row does: there is a supply for every description, and a level or a
\* maximum that was not read is sent as 0.
PollRequests == <<"scalars", "counter", "marker", "split", "descr", "level", "max", "raw", "vendor">>
Tables == {"counter", "descr", "level", "max"}
Rows(t) == IF t = "counter" THEN Len(device.counts) ELSE Len(device.levels)
NoMetric == [online |-> FALSE, serial |-> FALSE, pageCount |-> NoCount, split |-> FALSE]

Asked(r) == step # 0 /\ PollRequests[step] = r
\* The poll ends; a host that was found not to answer GETBULK is remembered.
Finished == step' = 0 /\ noBulkHost' = (noBulkHost \/ (noBulk' /\ ~device.v1))
AskNext == step' = step + 1 /\ UNCHANGED noBulkHost
\* PollRequests are answered, lost with all their retries, or ended by deviceTimeout.
Fate == {"whole", "lost", "late"}
Fates(fate) ==
  LET n == Cardinality({i \in DOMAIN fate : fate[i] # "whole"})
  IN /\ cuts + n <= MaxCuts /\ cuts' = cuts + n /\ clean' = (clean /\ n = 0)
     /\ expired' = (expired \/ \E i \in DOMAIN fate : fate[i] = "late")
-----------------------------------------------------------------------------
\* GETNEXT without trying GETBULK.
Preferred == noBulkHost \/ device.v1
BeginPoll ==
  /\ step = 0 /\ polls < MaxPolls /\ polls' = polls + 1 /\ step' = 1
  /\ noBulk' = Preferred /\ expired' = FALSE /\ clean' = TRUE
  /\ read' = [t \in Tables |-> 0] /\ metric' = NoMetric
  /\ UNCHANGED <<device, noBulkHost, vendorCaptured, cuts, wasted>>

Answered == device.get
\* getScalars: SNMPv1 rejects a GET of several OIDs when the host lacks one of
\* them (PowerOnCount is HP's own), and each is asked on its own then.  When
\* one of those is lost, or the time is over, the serial number may be missing.
OneByOne == device.v1 /\ ~device.complete
ReadScalars ==
  /\ Asked("scalars")
  /\ \E fate \in [{1, 2} -> Fate], got \in BOOLEAN :
       LET online == Answered /\ fate[1] = "whole"
       IN /\ ~(online /\ OneByOne) => fate[2] = "whole"
          /\ fate[2] = "whole" => got
          /\ Fates(fate)
          /\ metric' = [metric EXCEPT !.online = online, !.serial = online /\ device.serial /\ got]
          /\ UNCHANGED noBulk
          /\ IF online THEN AskNext ELSE Finished
  /\ UNCHANGED <<device, vendorCaptured, polls, read, wasted>>

\* How many of n rows a walk brings: some, when it was cut short.
Brought(answers, n, fate) ==
  IF ~answers THEN {0} ELSE IF fate = "whole" THEN {n} ELSE 0 .. n
\* GETNEXT is tried when GETBULK brought nothing, and preferred once it brings
\* something.
TryNext(b) == b = 0
Learned(x) == x > 0
\* session.walk over n rows.
Walk(n, got) ==
  \E fate \in [{1, 2} -> Fate], b, x \in 0 .. n :
    LET bulk == ~expired /\ ~noBulk
        next == ~expired /\ (noBulk \/ (TryNext(b) /\ fate[1] # "late"))
    IN /\ IF bulk THEN b \in Brought(device.bulk = "rows", n, fate[1]) ELSE b = 0 /\ fate[1] = "whole"
       /\ IF next THEN x \in Brought(device.next, n, fate[2]) ELSE x = 0 /\ fate[2] = "whole"
       /\ got = IF next THEN x ELSE b
       /\ noBulk' = (noBulk \/ (bulk /\ next /\ Learned(x)))
       /\ wasted' = wasted + (IF bulk /\ b = 0 THEN 1 ELSE 0)
       /\ Fates(fate)
ReadTable(t) ==
  /\ Asked(t) /\ AskNext
  /\ \E got \in 0 .. Rows(t) : Walk(Rows(t), got) /\ read' = [read EXCEPT ![t] = got]
  /\ UNCHANGED <<device, vendorCaptured, polls, metric>>

\* Mutant: the markers' sum.
Markers_Sum(S) == FoldLeft(LAMBDA a, b : a + b, 0, S)
\* walkPageCount: the largest marker's counter; none was read.
Markers(S) == Max({0} \cup ToSet(S))
NoMarker == NoCount
\* With no row of the walk the first marker is asked for by GET.
ReadMarker ==
  /\ Asked("marker") /\ AskNext
  /\ \E fate \in [{1} -> Fate] :
       LET first == device.get /\ ~expired /\ fate[1] = "whole" /\ device.counts # <<>>
       IN /\ (read["counter"] > 0 \/ expired) => fate[1] = "whole"
          /\ Fates(fate)
          /\ metric' = [metric EXCEPT !.pageCount =
               IF read["counter"] > 0 THEN Markers(SubSeq(device.counts, 1, read["counter"]))
               ELSE IF first /\ device.counts[1] > 0 THEN device.counts[1] ELSE NoMarker]
  /\ UNCHANGED <<device, vendorCaptured, polls, noBulk, read, wasted>>
\* collectMarkerSplit: both of HP's counters or neither.
ReadSplit ==
  /\ Asked("split") /\ AskNext
  /\ \E fate \in [{1} -> Fate] :
       /\ expired => fate[1] = "whole"
       /\ Fates(fate)
       /\ metric' = [metric EXCEPT !.split = device.split /\ ~expired /\ fate[1] = "whole"]
  /\ UNCHANGED <<device, vendorCaptured, polls, noBulk, read, wasted>>

\* The capture of every OID, left out when the poll was slow so far.
CaptureRaw ==
  /\ Asked("raw")
  /\ \/ /\ UNCHANGED <<noBulk, cuts, expired, clean, wasted>> /\ Finished
     \/ /\ AskNext /\ \E got \in 0 .. 1 : Walk(1, got)
  /\ UNCHANGED <<device, vendorCaptured, polls, read, metric>>
\* captureVendorSubtree, once for a host whose sysObjectID was read and names a
\* vendor, without a split, and without a serial number or with a supply that
\* has a color.  The columns of colors are not modelled: either may be so.
CaptureVendor ==
  /\ Asked("vendor")
  /\ \E color, vendor \in BOOLEAN :
       /\ color => read["descr"] > 0
       /\ IF metric.split \/ (metric.serial /\ ~color) \/ ~vendor \/ vendorCaptured
          THEN UNCHANGED <<vendorCaptured, noBulk, cuts, expired, clean, wasted>>
          ELSE vendorCaptured' = TRUE /\ \E got \in 0 .. 1 : Walk(1, got)
  /\ Finished
  /\ UNCHANGED <<device, polls, read, metric>>

CollectorInit ==
  /\ device \in SnmpDevices /\ noBulkHost = FALSE /\ vendorCaptured = FALSE
  /\ polls = 0 /\ cuts = 0 /\ step = 0 /\ noBulk = FALSE /\ expired = FALSE
  /\ read = [t \in Tables |-> 0] /\ metric = NoMetric /\ clean = TRUE /\ wasted = 0
CollectorNext ==
  \/ BeginPoll \/ ReadScalars \/ ReadMarker \/ ReadSplit \/ CaptureRaw \/ CaptureVendor
  \/ \E t \in Tables : ReadTable(t)
CollectorSpec == CollectorInit /\ [][CollectorNext]_cvars
-----------------------------------------------------------------------------
Polled == step = 0 /\ polls > 0
CollectorTypeOK ==
  /\ device \in SnmpDevices /\ step \in 0 .. Len(PollRequests) /\ polls \in 0 .. MaxPolls
  /\ cuts \in 0 .. MaxCuts /\ wasted \in Nat
  /\ {noBulkHost, vendorCaptured, noBulk, expired, clean} \subseteq BOOLEAN
  /\ metric.pageCount \in Nat \cup {NoCount}
  /\ \A t \in Tables : read[t] \in 0 .. Rows(t) /\ (read[t] > 0 => metric.online)
  /\ step # 0 /\ noBulkHost => noBulk

(* "An unreadable counter must not look like a real 0", and several markers  *)
(* are one engine ("summing billed 4x", walkPageCount): whatever a poll       *)
(* loses, the counter it sends is one the device has, or none.                *)
CounterHonest ==
  metric.pageCount # NoCount => metric.pageCount \in ToSet(device.counts)

(* The fallbacks of the field reports (session.walk, getScalars,              *)
(* walkPageCount): with no request lost, whatever a host answers at least in  *)
(* one way is read, and read completely.                                      *)
EverythingRead ==
  Polled /\ clean /\ device.get =>
    LET walks == device.next \/ device.bulk = "rows"
    IN /\ metric.online /\ metric.serial = device.serial /\ metric.split = device.split
       /\ walks => /\ \A t \in Tables : read[t] = Rows(t)
                   /\ \A i \in DOMAIN device.counts : device.counts[i] <= metric.pageCount
       /\ device.counts # <<>> /\ device.counts[1] > 0 => metric.pageCount # NoCount

(* "The failed GETBULK attempt is only paid once per run" (noBulkHosts) by a  *)
(* host that answers GETNEXT, but for polls that were cut before they knew.   *)
SilencePaidOnce ==
  device.bulk # "rows" /\ device.next /\ <<>> \notin {device.counts, device.levels} => wasted <= 1 + cuts

(* What is sent is the device's, as much as it answers, without asking again  *)
(* what it was silent to (pollDevice).                                        *)
PollSound == CounterHonest /\ EverythingRead /\ SilencePaidOnce

=============================================================================
