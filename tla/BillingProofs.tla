---------------------------- MODULE BillingProofs ----------------------------
(* Proofs about what a bill is made of (MCBilling): the poll that reads a   *)
(* printer's counters (Collector), for every host; and all of the parts     *)
(* together, each the subject of a behavior at a time: what is proved of    *)
(* contracts, pages, charts, forecasts and polls alone holds here, and the  *)
(* others rest meanwhile.                                                   *)
EXTENDS MCBilling, ContractsProofs, PagesProofs

(* The collector: what one host's answers and lost requests leave in a poll, *)
(* and what is remembered of the host from one poll to the next.            *)

\* walkPageCount takes the largest of the markers' counters.
LEMMA LargestOf ==
  ASSUME NEW S \in Seq(Int)
  PROVE  /\ Markers(S) \in Nat
         /\ Markers(S) \in {0} \cup ToSet(S)
         /\ \A i \in 1 .. Len(S) : S[i] <= Markers(S)
<1> DEFINE Tops(n) == \E m \in {0} \cup ToSet(S) : m >= 0 /\ \A i \in 1 .. Len(S) : i <= n => S[i] <= m
           T == {n \in Nat : Tops(n)}
<1>1. 0 \in T
  OBVIOUS
<1>2. ASSUME NEW n \in Nat, n \in T PROVE n + 1 \in T
  <2>1. PICK m \in {0} \cup ToSet(S) : m >= 0 /\ \A i \in 1 .. Len(S) : i <= n => S[i] <= m
    BY <1>2
  <2>2. m \in Int
    BY DEF ToSet
  <2>3. CASE n + 1 \in 1 .. Len(S) /\ S[n + 1] > m
    <3>1. S[n + 1] \in ToSet(S) /\ S[n + 1] \in Int /\ S[n + 1] >= 0
      BY <2>1, <2>2, <2>3 DEF ToSet
    <3>2. \A i \in 1 .. Len(S) : i <= n + 1 => S[i] <= S[n + 1]
      BY <2>1, <2>2, <2>3, <3>1
    <3> QED BY <3>1, <3>2
  <2>4. CASE ~(n + 1 \in 1 .. Len(S) /\ S[n + 1] > m)
    <3>1. \A i \in 1 .. Len(S) : i <= n + 1 => S[i] <= m
      BY <2>1, <2>2, <2>4
    <3> QED BY <2>1, <3>1
  <2> QED BY <2>3, <2>4
<1>3. Tops(Len(S))
  <2> HIDE DEF Tops
  <2>1. Nat \subseteq T
    <3> HIDE DEF T
    <3> QED BY <1>1, <1>2, UpToAll
  <2> QED BY <2>1
<1>4. PICK m \in {0} \cup ToSet(S) : m >= 0 /\ \A i \in 1 .. Len(S) : i <= Len(S) => S[i] <= m
  BY <1>3
<1>5. \A y \in {0} \cup ToSet(S) : m >= y
  BY <1>4 DEF ToSet
<1>6. /\ Markers(S) \in {0} \cup ToSet(S)
      /\ \A y \in {0} \cup ToSet(S) : Markers(S) >= y
  BY <1>4, <1>5 DEF Markers, Max
<1>7. Markers(S) \in Int
  BY <1>6 DEF ToSet
<1>8. \A i \in 1 .. Len(S) : S[i] \in ToSet(S)
  BY DEF ToSet
<1> QED BY <1>6, <1>7, <1>8

\* Requests of a poll and what is counted of those that are lost.
LEMMA FatesCounted ==
  ASSUME NEW fate, DOMAIN fate \in {{1}, {1, 2}}, Fates(fate), cuts \in Nat,
         clean \in BOOLEAN, expired \in BOOLEAN
  PROVE  /\ cuts' \in Nat /\ cuts' <= MaxCuts /\ cuts <= cuts'
         /\ clean' \in BOOLEAN /\ expired' \in BOOLEAN
         /\ (\E i \in DOMAIN fate : fate[i] # "whole") => cuts + 1 <= cuts' /\ ~clean'
         /\ (\A i \in DOMAIN fate : fate[i] = "whole") =>
              cuts' = cuts /\ clean' = clean /\ expired' = expired
         /\ ~clean => ~clean'
<1> DEFINE bad == {i \in DOMAIN fate : fate[i] # "whole"}
<1>1. IsFiniteSet({1, 2}) /\ bad \subseteq {1, 2}
  <2>1. IsFiniteSet({1}) /\ {1} \cup {2} = {1, 2} /\ {} \cup {1} = {1}
    BY FS_EmptySet, FS_AddElement
  <2> QED BY <2>1, FS_AddElement
<1>2. IsFiniteSet(bad)
  BY <1>1, FS_Subset
<1>3. Cardinality(bad) \in Nat /\ (Cardinality(bad) = 0 <=> bad = {})
  BY <1>2, FS_CardinalityType, FS_EmptySet
<1>4. /\ cuts + Cardinality(bad) <= MaxCuts /\ cuts' = cuts + Cardinality(bad)
      /\ clean' = (clean /\ Cardinality(bad) = 0)
      /\ expired' = (expired \/ \E i \in DOMAIN fate : fate[i] = "late")
  BY DEF Fates
<1> HIDE DEF bad
<1>5. (\E i \in DOMAIN fate : fate[i] # "whole") => Cardinality(bad) >= 1
  BY <1>3 DEF bad
<1>6. (\A i \in DOMAIN fate : fate[i] = "whole") => Cardinality(bad) = 0
  BY <1>3 DEF bad
<1>7. cuts' \in Nat /\ cuts' <= MaxCuts /\ cuts <= cuts'
  BY <1>3, <1>4
<1>8. clean' \in BOOLEAN /\ expired' \in BOOLEAN /\ (~clean => ~clean')
  BY <1>4
<1>9. (\E i \in DOMAIN fate : fate[i] # "whole") => cuts + 1 <= cuts' /\ ~clean'
  <2>1. SUFFICES ASSUME \E i \in DOMAIN fate : fate[i] # "whole"
                 PROVE  cuts + 1 <= cuts' /\ ~clean'
    OBVIOUS
  <2>2. Cardinality(bad) >= 1 /\ Cardinality(bad) # 0
    BY <2>1, <1>3, <1>5
  <2>3. ~clean'
    BY <2>2, <1>4
  <2>4. cuts + 1 <= cuts'
    BY <2>2, <1>3, <1>4
  <2> QED BY <2>3, <2>4
<1>10. (\A i \in DOMAIN fate : fate[i] = "whole") =>
              cuts' = cuts /\ clean' = clean /\ expired' = expired
  BY <1>3, <1>4, <1>6
<1> QED BY <1>7, <1>8, <1>9, <1>10

\* What the poll has asked so far: PollRequests[i] for i < Reached.
Reached == IF polls = 0 THEN 0 ELSE IF step = 0 THEN Len(PollRequests) + 1 ELSE step
Walks == device.next \/ device.bulk = "rows"
Order == [counter |-> 2, descr |-> 5, level |-> 6, max |-> 7]
\* A host is found silent to GETBULK by what it answers to GETNEXT.
SilenceInv ==
  /\ noBulk \/ noBulkHost => device.next \/ device.v1
  /\ step = 0 /\ noBulk => noBulkHost \/ device.v1
  /\ step # 0 /\ (noBulkHost \/ device.v1) => noBulk
Paid == IF noBulk THEN 1 ELSE 0
PaidInv ==
  device.bulk # "rows" /\ device.next /\ <<>> \notin {device.counts, device.levels} =>
    wasted <= cuts + Paid
ScalarsRead == metric.online /\ metric.serial = device.serial
MarkerRead ==
  /\ Walks => \A i \in DOMAIN device.counts : device.counts[i] <= metric.pageCount
  /\ device.counts # <<>> /\ device.counts[1] > 0 => metric.pageCount # NoCount
ReadInv ==
  polls > 0 /\ clean /\ device.get =>
    /\ Reached > 1 => ScalarsRead
    /\ Reached > 3 => MarkerRead
    /\ Reached > 4 => metric.split = device.split
    /\ Walks => \A t \in Tables : Reached > Order[t] => read[t] = Rows(t)
ProgressInv ==
  /\ device \in SnmpDevices /\ step \in 0 .. 9 /\ polls \in 0 .. MaxPolls
  /\ cuts \in 0 .. MaxCuts /\ wasted \in Nat
  /\ noBulkHost \in BOOLEAN /\ vendorCaptured \in BOOLEAN /\ noBulk \in BOOLEAN
  /\ expired \in BOOLEAN /\ clean \in BOOLEAN /\ (clean => ~expired)
  /\ step # 0 => polls > 0
ResultInv ==
  /\ metric \in [online : BOOLEAN, serial : BOOLEAN, pageCount : Nat \cup {NoCount}, split : BOOLEAN]
  /\ read \in [Tables -> Nat]
  /\ \A t \in Tables : read[t] <= Rows(t) /\ (read[t] > 0 => metric.online)
  /\ step > 1 => metric.online
  /\ step = 1 => \A t \in Tables : read[t] = 0
CollectorInv == ProgressInv /\ SilenceInv /\ PaidInv /\ ResultInv /\ ReadInv

LEMMA HostKnown ==
  ASSUME device \in SnmpDevices
  PROVE  /\ device \in SnmpDevice /\ (device.v1 => device.bulk = "silent")
         /\ device.counts \in Seq(Int) /\ device.levels \in Seq(Nat)
         /\ {device.next, device.get, device.v1, device.serial, device.split} \subseteq BOOLEAN
         /\ \A t \in Tables : Rows(t) \in Nat
         /\ Order \in [Tables -> {2, 5, 6, 7}]
<1>1. device \in SnmpDevice /\ (device.v1 => device.bulk = "silent")
  BY CollectorAssumption
<1>2. device.counts \in Seq(Int) /\ device.levels \in Seq(Nat)
  BY <1>1 DEF SnmpDevice
<1>3. \A t \in Tables : Rows(t) \in Nat
  BY <1>2 DEF Rows
<1>4. Order \in [Tables -> {2, 5, 6, 7}]
  BY DEF Order, Tables
<1>5. {device.next, device.get, device.v1, device.serial, device.split} \subseteq BOOLEAN
  BY <1>1 DEF SnmpDevice
<1> QED BY <1>1, <1>2, <1>3, <1>4, <1>5

LEMMA InvTyped ==
  ASSUME CollectorInv
  PROVE  /\ device \in SnmpDevices /\ step \in 0 .. 9 /\ polls \in Nat
         /\ cuts \in Nat /\ wasted \in Nat
         /\ noBulkHost \in BOOLEAN /\ vendorCaptured \in BOOLEAN /\ noBulk \in BOOLEAN
         /\ expired \in BOOLEAN /\ clean \in BOOLEAN /\ (clean => ~expired)
BY CollectorAssumption DEF CollectorInv, ProgressInv

LEMMA WalkSound ==
  ASSUME CollectorInv, step # 0, NEW n \in Nat, NEW got, Walk(n, got)
  PROVE  /\ noBulk' \in BOOLEAN /\ (noBulk => noBulk') /\ (noBulk' => device.next \/ device.v1)
         /\ cuts' \in 0 .. MaxCuts /\ wasted' \in Nat
         /\ clean' \in BOOLEAN /\ expired' \in BOOLEAN /\ (clean' => clean /\ ~expired')
         /\ clean' /\ Walks => got = n
         /\ n > 0 /\ device.bulk # "rows" /\ device.next /\ wasted <= cuts + Paid
              => wasted' <= cuts' + Paid'
<1>1. PICK fate \in [{1, 2} -> Fate], b \in 0 .. n, x \in 0 .. n :
        LET bulk == ~expired /\ ~noBulk
            next == ~expired /\ (noBulk \/ (TryNext(b) /\ fate[1] # "late"))
        IN /\ IF bulk THEN b \in Brought(device.bulk = "rows", n, fate[1]) ELSE b = 0 /\ fate[1] = "whole"
           /\ IF next THEN x \in Brought(device.next, n, fate[2]) ELSE x = 0 /\ fate[2] = "whole"
           /\ got = IF next THEN x ELSE b
           /\ noBulk' = (noBulk \/ (bulk /\ next /\ Learned(x)))
           /\ wasted' = wasted + (IF bulk /\ b = 0 THEN 1 ELSE 0)
           /\ Fates(fate)
  BY DEF Walk
<1> DEFINE bulk == ~expired /\ ~noBulk
           next == ~expired /\ (noBulk \/ (b = 0 /\ fate[1] # "late"))
<1>2. /\ IF bulk THEN b \in Brought(device.bulk = "rows", n, fate[1]) ELSE b = 0 /\ fate[1] = "whole"
      /\ IF next THEN x \in Brought(device.next, n, fate[2]) ELSE x = 0 /\ fate[2] = "whole"
      /\ got = (IF next THEN x ELSE b)
      /\ noBulk' = (noBulk \/ (bulk /\ next /\ x > 0))
      /\ wasted' = wasted + (IF bulk /\ b = 0 THEN 1 ELSE 0)
      /\ Fates(fate)
  BY <1>1 DEF TryNext, Learned
<1>3. /\ cuts \in Nat /\ wasted \in Nat /\ noBulk \in BOOLEAN /\ expired \in BOOLEAN
      /\ clean \in BOOLEAN /\ (clean => ~expired) /\ device \in SnmpDevices
  BY InvTyped
<1>4. DOMAIN fate = {1, 2} /\ DOMAIN fate \in {{1}, {1, 2}}
  OBVIOUS
<1>5. /\ cuts' \in Nat /\ cuts' <= MaxCuts /\ cuts <= cuts'
      /\ clean' \in BOOLEAN /\ expired' \in BOOLEAN
      /\ (fate[1] # "whole" \/ fate[2] # "whole") => cuts + 1 <= cuts' /\ ~clean'
      /\ (fate[1] = "whole" /\ fate[2] = "whole") =>
           cuts' = cuts /\ clean' = clean /\ expired' = expired
  BY <1>2, <1>3, <1>4, FatesCounted
<1>6. /\ x > 0 => next /\ device.next
      /\ b > 0 => bulk /\ device.bulk = "rows"
      /\ next /\ device.next /\ fate[2] = "whole" => x = n
      /\ bulk /\ device.bulk = "rows" /\ fate[1] = "whole" => b = n
  BY <1>2 DEF Brought
<1>7. (noBulk => device.next \/ device.v1) /\ (device.v1 => noBulk)
  BY DEF CollectorInv, SilenceInv
<1>8. noBulk' \in BOOLEAN /\ (noBulk => noBulk') /\ (noBulk' => device.next \/ device.v1)
  BY <1>2, <1>3, <1>6, <1>7
<1>9. cuts' \in 0 .. MaxCuts /\ wasted' \in Nat
  <2>1. cuts' \in 0 .. MaxCuts
    BY <1>5, CollectorAssumption
  <2>2. wasted' \in Nat
    <3>1. (bulk /\ b = 0) => wasted' = wasted + 1
      BY <1>2
    <3>2. ~(bulk /\ b = 0) => wasted' = wasted + 0
      BY <1>2
    <3> QED BY <3>1, <3>2, <1>3
  <2> QED BY <2>1, <2>2
<1>10. clean' => clean /\ ~expired' /\ fate[1] = "whole" /\ fate[2] = "whole"
  BY <1>3, <1>5
<1>11. ASSUME clean', Walks PROVE got = n
  <2>1. fate[1] = "whole" /\ fate[2] = "whole" /\ ~expired
    BY <1>11, <1>10, <1>3
  <2>2. device.v1 => device.bulk = "silent"
    BY <1>3, HostKnown
  <2>3. CASE noBulk
    <3>1. next /\ device.next
      BY <2>1, <2>2, <2>3, <1>7, <1>11 DEF Walks
    <3> QED BY <3>1, <2>1, <1>2, <1>6
  <2>4. CASE ~noBulk /\ b = 0
    <3>1. next /\ bulk
      BY <2>1, <2>4
    <3>2. CASE device.next
      BY <3>1, <3>2, <2>1, <1>2, <1>6
    <3>3. CASE ~device.next
      <4>1. device.bulk = "rows" /\ n = 0 /\ got = x
        BY <3>1, <3>3, <2>1, <2>4, <1>2, <1>6, <1>11 DEF Walks
      <4> QED BY <4>1
    <3> QED BY <3>2, <3>3
  <2>5. CASE ~noBulk /\ b # 0
    <3>1. ~next /\ bulk /\ device.bulk = "rows"
      BY <2>1, <2>5, <1>6
    <3> QED BY <3>1, <2>1, <1>2, <1>6
  <2> QED BY <2>3, <2>4, <2>5
<1>12. ASSUME n > 0, device.bulk # "rows", device.next, wasted <= cuts + Paid
       PROVE  wasted' <= cuts' + Paid'
  <2>1. b = 0
    BY <1>6, <1>12
  <2>0. wasted <= cuts + Paid /\ cuts \in Nat /\ wasted \in Nat
    BY <1>3, <1>12
  <2>5. PICK k \in Nat : cuts' = cuts + k
    <3>1. \A c \in Nat : cuts <= c => c = cuts + (c - cuts) /\ c - cuts \in Nat
      BY <2>0
    <3> QED BY <3>1, <1>5
  <2>2. CASE ~bulk
    <3>1. noBulk' = noBulk
      BY <2>2, <1>2, <1>3
    <3>2. wasted' = wasted
      BY <2>2, <1>2, <1>3
    <3>3. Paid' = Paid /\ Paid \in Nat
      BY <3>1 DEF Paid
    <3>4. wasted <= (cuts + k) + Paid
      BY <3>3, <2>0
    <3> QED BY <3>2, <3>3, <3>4, <2>5
  <2>3. CASE bulk /\ fate[1] = "whole" /\ fate[2] = "whole"
    <3>1. next /\ x = n
      BY <2>1, <2>3, <1>6, <1>12
    <3>2. noBulk' /\ ~noBulk
      BY <3>1, <2>3, <1>2, <1>12
    <3>3. wasted' = wasted + 1
      BY <2>1, <2>3, <1>2
    <3>4. Paid' = 1 /\ Paid = 0
      BY <3>2 DEF Paid
    <3>5. cuts' = cuts
      BY <2>3, <1>5
    <3> QED BY <3>3, <3>4, <3>5, <2>0
  <2>4. CASE bulk /\ (fate[1] # "whole" \/ fate[2] # "whole")
    <3>1. wasted' = wasted + 1 /\ ~noBulk
      BY <2>1, <2>4, <1>2
    <3>2. cuts + 1 <= cuts'
      BY <2>4, <1>5
    <3>3. Paid = 0
      BY <3>1 DEF Paid
    <3>4. Paid' \in {0, 1}
      BY DEF Paid
    <3>5. k >= 1
      BY <3>2, <2>5, <2>0
    <3>6. \A p \in {0, 1} : wasted + 1 <= (cuts + k) + p
      BY <3>3, <3>5, <2>0
    <3>7. wasted' = wasted + 1
      BY <3>1
    <3> QED BY <3>4, <3>6, <3>7, <2>5
  <2> QED BY <2>2, <2>3, <2>4
<1>13. clean' \in BOOLEAN /\ expired' \in BOOLEAN /\ (clean' => clean /\ ~expired')
  BY <1>5, <1>10, Zenon
<1>14. clean' /\ Walks => got = n
  BY <1>11, Zenon
<1>15. n > 0 /\ device.bulk # "rows" /\ device.next /\ wasted <= cuts + Paid
         => wasted' <= cuts' + Paid'
  BY <1>12, Zenon
<1> QED BY <1>8, <1>9, <1>13, <1>14, <1>15, Zenon

LEMMA StepOf ==
  ASSUME step \in 0 .. 9, NEW r, Asked(r)
  PROVE  /\ r = "scalars" => step = 1
         /\ r = "marker" => step = 3
         /\ r = "split" => step = 4
         /\ r = "raw" => step = 8
         /\ r = "vendor" => step = 9
         /\ r \in Tables => step = Order[r]
<1>1. step # 0 /\ PollRequests[step] = r
  BY DEF Asked
<1>2. step \in {1, 2, 3, 4, 5, 6, 7, 8, 9}
  BY <1>1
<1> QED BY <1>1, <1>2 DEF PollRequests, Tables, Order

\* What every request does to the poll.
LEMMA RequestMade ==
  ASSUME ProgressInv, SilenceInv, step # 0, UNCHANGED <<device, polls>>,
         (AskNext /\ step < 9) \/ Finished,
         vendorCaptured' \in BOOLEAN, expired' \in BOOLEAN, clean' \in BOOLEAN, noBulk' \in BOOLEAN,
         clean' => ~expired', noBulk => noBulk', noBulk' => device.next \/ device.v1,
         cuts' \in 0 .. MaxCuts, wasted' \in Nat
  PROVE  ProgressInv' /\ SilenceInv'
<1>1. /\ device \in SnmpDevices /\ step \in 1 .. 9 /\ polls \in 0 .. MaxPolls /\ polls > 0
      /\ noBulkHost \in BOOLEAN
  BY DEF ProgressInv
<1>2. device.v1 \in BOOLEAN /\ device.next \in BOOLEAN
  BY <1>1, HostKnown
<1>3. /\ (noBulk \/ noBulkHost) => (device.next \/ device.v1)
      /\ (noBulkHost \/ device.v1) => noBulk
  BY DEF SilenceInv
<1>4. CASE AskNext /\ step < 9
  <2>1. step' = step + 1 /\ noBulkHost' = noBulkHost
    BY <1>4 DEF AskNext
  <2>2. step' \in 1 .. 9
    BY <1>1, <1>4, <2>1
  <2>3. ProgressInv'
    BY <1>1, <2>1, <2>2 DEF ProgressInv
  <2>4. step' # 0
    BY <2>2
  <2>5. SilenceInv'
    BY <1>2, <1>3, <2>1, <2>4, Zenon DEF SilenceInv
  <2> QED BY <2>3, <2>5
<1>5. CASE Finished
  <2>1. step' = 0 /\ noBulkHost' = (noBulkHost \/ (noBulk' /\ ~device.v1))
    BY <1>5 DEF Finished
  <2>2. noBulkHost' \in BOOLEAN /\ step' \in 0 .. 9
    BY <2>1
  <2>3. ProgressInv'
    BY <1>1, <2>1, <2>2 DEF ProgressInv
  <2>4. SilenceInv'
    BY <1>2, <1>3, <2>1, Zenon DEF SilenceInv
  <2> QED BY <2>3, <2>4
<1> QED BY <1>4, <1>5

\* A request that is no walk.
LEMMA AskedOnce ==
  ASSUME CollectorInv, step # 0, UNCHANGED <<device, polls, vendorCaptured, noBulk, wasted>>,
         (AskNext /\ step < 9) \/ Finished,
         NEW D \in {{1}, {1, 2}}, NEW fate \in [D -> Fate], Fates(fate)
  PROVE  /\ ProgressInv' /\ SilenceInv' /\ PaidInv'
         /\ clean' => clean /\ ~expired /\ \A i \in D : fate[i] = "whole"
<1>1. /\ cuts \in Nat /\ wasted \in Nat /\ noBulk \in BOOLEAN /\ expired \in BOOLEAN
      /\ clean \in BOOLEAN /\ (clean => ~expired) /\ vendorCaptured \in BOOLEAN
  BY InvTyped
<1>2. DOMAIN fate = D /\ DOMAIN fate \in {{1}, {1, 2}}
  OBVIOUS
<1>3. /\ cuts' \in Nat /\ cuts' <= MaxCuts /\ cuts <= cuts'
      /\ clean' \in BOOLEAN /\ expired' \in BOOLEAN
      /\ (\E i \in D : fate[i] # "whole") => cuts + 1 <= cuts' /\ ~clean'
      /\ (\A i \in D : fate[i] = "whole") => cuts' = cuts /\ clean' = clean /\ expired' = expired
  BY <1>1, <1>2, FatesCounted
<1>4. clean' => clean /\ ~expired /\ (\A i \in D : fate[i] = "whole") /\ ~expired'
  BY <1>1, <1>3
<1>5. cuts' \in 0 .. MaxCuts
  BY <1>3, CollectorAssumption
<1>6. noBulk' => device.next \/ device.v1
  BY <1>1 DEF CollectorInv, SilenceInv
<1>7. ProgressInv' /\ SilenceInv'
  BY <1>1, <1>3, <1>4, <1>5, <1>6, RequestMade DEF CollectorInv
<1>8. PaidInv'
  <2>1. PaidInv /\ Paid' = Paid /\ Paid \in Nat
    BY DEF CollectorInv, Paid
  <2>2. PICK k \in Nat : cuts' = cuts + k
    <3>1. \A c \in Nat : cuts <= c => c = cuts + (c - cuts) /\ c - cuts \in Nat
      BY <1>1
    <3> QED BY <3>1, <1>3
  <2>3. wasted <= cuts + Paid => wasted' <= cuts' + Paid'
    BY <2>1, <2>2, <1>1
  <2> QED BY <2>1, <2>3 DEF PaidInv
<1> QED BY <1>4, <1>7, <1>8

\* A request that walks.
LEMMA WalkedOnce ==
  ASSUME CollectorInv, step # 0, UNCHANGED <<device, polls>>, vendorCaptured' \in BOOLEAN,
         (AskNext /\ step < 9) \/ Finished,
         NEW n \in Nat, NEW got, Walk(n, got),
         <<>> \notin {device.counts, device.levels} => n > 0
  PROVE  /\ ProgressInv' /\ SilenceInv' /\ PaidInv'
         /\ clean' => clean
         /\ clean' /\ Walks => got = n
<1>1. /\ noBulk' \in BOOLEAN /\ (noBulk => noBulk') /\ (noBulk' => device.next \/ device.v1)
      /\ cuts' \in 0 .. MaxCuts /\ wasted' \in Nat
      /\ clean' \in BOOLEAN /\ expired' \in BOOLEAN /\ (clean' => clean /\ ~expired')
      /\ clean' /\ Walks => got = n
      /\ n > 0 /\ device.bulk # "rows" /\ device.next /\ wasted <= cuts + Paid
           => wasted' <= cuts' + Paid'
  BY WalkSound
<1>2. ProgressInv' /\ SilenceInv'
  BY <1>1, RequestMade DEF CollectorInv
<1>3. PaidInv'
  BY <1>1 DEF CollectorInv, PaidInv
<1> QED BY <1>1, <1>2, <1>3

LEMMA ReachedNext ==
  ASSUME ProgressInv, step # 0, UNCHANGED polls
  PROVE  /\ Reached = step /\ polls' > 0
         /\ AskNext => Reached' = step + 1
         /\ Finished => Reached' = 10
<1>1. polls > 0 /\ polls \in Nat /\ step \in 1 .. 9
  BY CollectorAssumption DEF ProgressInv
<1>2. Reached = step
  BY <1>1 DEF Reached
<1>3. ASSUME AskNext PROVE Reached' = step + 1
  <2>1. step' = step + 1 /\ step' # 0 /\ polls' # 0
    BY <1>1, <1>3 DEF AskNext
  <2> QED BY <2>1 DEF Reached
<1>4. ASSUME Finished PROVE Reached' = 10
  <2>1. step' = 0 /\ polls' # 0
    BY <1>1, <1>4 DEF Finished
  <2> QED BY <2>1 DEF Reached, PollRequests
<1> QED BY <1>1, <1>2, <1>3, <1>4

LEMMA BeginPollInv ==
  ASSUME CollectorInv, BeginPoll
  PROVE  CollectorInv'
<1>1. /\ step = 0 /\ polls < MaxPolls /\ polls' = polls + 1 /\ step' = 1
      /\ noBulk' = (noBulkHost \/ device.v1) /\ expired' = FALSE /\ clean' = TRUE
      /\ read' = [t \in Tables |-> 0] /\ metric' = NoMetric
      /\ UNCHANGED <<device, noBulkHost, vendorCaptured, cuts, wasted>>
  BY DEF BeginPoll, Preferred
<1>2. /\ device \in SnmpDevices /\ polls \in 0 .. MaxPolls /\ cuts \in 0 .. MaxCuts /\ wasted \in Nat
      /\ noBulkHost \in BOOLEAN /\ vendorCaptured \in BOOLEAN /\ noBulk \in BOOLEAN
  BY DEF CollectorInv, ProgressInv
<1>3. device.v1 \in BOOLEAN /\ device.next \in BOOLEAN /\ \A t \in Tables : Rows(t) \in Nat
  BY <1>2, HostKnown
<1>4. ProgressInv'
  <2>1. polls' \in 0 .. MaxPolls /\ polls' > 0 /\ step' \in 0 .. 9 /\ noBulk' \in BOOLEAN
    BY <1>1, <1>2, <1>3, CollectorAssumption
  <2> QED BY <2>1, <1>1, <1>2 DEF ProgressInv
<1>5. SilenceInv'
  <2>1. step' # 0
    BY <1>1
  <2> QED BY <2>1, <1>1, <1>2, <1>3, Zenon DEF CollectorInv, SilenceInv
<1>6. PaidInv'
  <2>1. noBulk => noBulk'
    BY <1>1, Zenon DEF CollectorInv, SilenceInv
  <2>2. Paid \in {0, 1} /\ Paid' \in {0, 1} /\ (Paid = 1 => Paid' = 1)
    BY <2>1 DEF Paid
  <2>3. \A p, q \in {0, 1} : (p = 1 => q = 1) => (wasted <= cuts + p => wasted <= cuts + q)
    BY <1>2
  <2>4. wasted' = wasted /\ cuts' = cuts
    BY <1>1
  <2>5. wasted <= cuts + Paid => wasted' <= cuts' + Paid'
    BY <2>2, <2>3, <2>4
  <2> QED BY <2>5, <1>1 DEF CollectorInv, PaidInv
<1>7. ResultInv'
  <2>1. metric' \in [online : BOOLEAN, serial : BOOLEAN, pageCount : Nat \cup {NoCount}, split : BOOLEAN]
    BY <1>1 DEF NoMetric
  <2>2. read' \in [Tables -> Nat] /\ ~(step' > 1) /\ \A t \in Tables : read'[t] = 0 /\ ~(read'[t] > 0)
    BY <1>1
  <2>3. \A t \in Tables : Rows(t)' = Rows(t)
    BY <1>1 DEF Rows
  <2>4. \A t \in Tables : read'[t] <= Rows(t)'
    BY <2>2, <2>3, <1>3
  <2>5. read' \in [Tables -> Nat] /\ (step' > 1 => metric'.online)
        /\ (step' = 1 => \A t \in Tables : read'[t] = 0)
        /\ \A t \in Tables : read'[t] <= Rows(t)' /\ (read'[t] > 0 => metric'.online)
    BY <2>2, <2>4
  <2> QED BY <2>1, <2>5, Zenon DEF ResultInv
<1>8. ReadInv'
  <2>1. polls' # 0 /\ step' = 1
    BY <1>1, <1>2
  <2>2. Reached' = 1
    BY <2>1 DEF Reached
  <2>3. ~(Reached' > 1) /\ ~(Reached' > 3) /\ ~(Reached' > 4)
        /\ \A t \in Tables : ~(Reached' > Order[t])
    BY <2>2, <1>2, HostKnown DEF Order, Tables
  <2> QED BY <2>3 DEF ReadInv
<1> QED BY <1>4, <1>5, <1>6, <1>7, <1>8 DEF CollectorInv

LEMMA ReadScalarsInv ==
  ASSUME CollectorInv, ReadScalars
  PROVE  CollectorInv'
<1>1. PICK fate \in [{1, 2} -> Fate], got \in BOOLEAN :
        LET online == Answered /\ fate[1] = "whole"
        IN /\ ~(online /\ OneByOne) => fate[2] = "whole"
           /\ fate[2] = "whole" => got
           /\ Fates(fate)
           /\ metric' = [metric EXCEPT !.online = online, !.serial = online /\ device.serial /\ got]
           /\ UNCHANGED noBulk
           /\ IF online THEN AskNext ELSE Finished
  BY DEF ReadScalars
<1> DEFINE online == device.get /\ fate[1] = "whole"
<1>0. /\ fate[2] = "whole" => got
      /\ Fates(fate) /\ UNCHANGED noBulk
      /\ metric' = [metric EXCEPT !.online = online, !.serial = online /\ device.serial /\ got]
      /\ IF online THEN AskNext ELSE Finished
  BY <1>1 DEF Answered
<1>2. Asked("scalars") /\ UNCHANGED <<device, vendorCaptured, polls, read, wasted>>
  BY DEF ReadScalars
<1>3. step = 1 /\ step # 0
  BY <1>2, InvTyped, StepOf
<1>4. (AskNext /\ step < 9) \/ Finished
  BY <1>0, <1>3
<1>5. /\ ProgressInv' /\ SilenceInv' /\ PaidInv'
      /\ clean' => clean /\ ~expired /\ \A i \in {1, 2} : fate[i] = "whole"
  BY <1>0, <1>2, <1>3, <1>4, AskedOnce
<1>6. device \in SnmpDevices /\ device.get \in BOOLEAN /\ device.serial \in BOOLEAN
  BY InvTyped, HostKnown
<1>7. /\ metric'.online = online
      /\ metric'.serial = (online /\ device.serial /\ got)
      /\ metric' \in [online : BOOLEAN, serial : BOOLEAN, pageCount : Nat \cup {NoCount}, split : BOOLEAN]
  BY <1>0, <1>6 DEF CollectorInv, ResultInv
<1>8. /\ Reached = 1
      /\ AskNext => Reached' = 2
      /\ Finished => Reached' = 10
  BY <1>2, <1>3, ReachedNext DEF CollectorInv
<1>9. \A t \in Tables : read[t] = 0
  BY <1>3 DEF CollectorInv, ResultInv
<1>10. \A t \in Tables : Rows(t)' = Rows(t) /\ Rows(t) \in Nat
  BY <1>2, <1>6, HostKnown DEF Rows
<1>11. step' # 1 /\ (step' > 1 => metric'.online)
  <2>1. CASE AskNext /\ online
    BY <2>1, <1>3, <1>7 DEF AskNext
  <2>2. CASE Finished
    BY <2>2 DEF Finished
  <2> QED BY <2>1, <2>2, <1>0
<1>12. ResultInv'
  <2>1. read' = read /\ read \in [Tables -> Nat]
    BY <1>2 DEF CollectorInv, ResultInv
  <2>2. \A t \in Tables : read'[t] <= Rows(t)' /\ ~(read'[t] > 0)
    BY <2>1, <1>9, <1>10
  <2> QED BY <2>1, <2>2, <1>7, <1>11, Zenon DEF ResultInv
<1>13. ReadInv'
  <2>1. SUFFICES ASSUME clean', device'.get PROVE
          /\ Reached' > 1 => ScalarsRead'
          /\ ~(Reached' > 3) /\ ~(Reached' > 4)
          /\ \A t \in Tables : ~(Reached' > Order[t])
    BY Zenon DEF ReadInv
  <2>2. device' = device /\ device.get /\ fate[1] = "whole" /\ got
    BY <2>1, <1>0, <1>2, <1>5
  <2>3. AskNext
    BY <2>2, <1>0
  <2>4. \A t \in Tables : ~(2 > Order[t])
    BY DEF Order, Tables
  <2>6. Reached' = 2 /\ ~(2 > 3) /\ ~(2 > 4)
    BY <2>3, <1>8
  <2>5. ScalarsRead'
    BY <2>2, <1>7, <1>6 DEF ScalarsRead
  <2> QED BY <2>4, <2>5, <2>6
<1> QED BY <1>5, <1>12, <1>13 DEF CollectorInv

LEMMA ReadTableInv ==
  ASSUME CollectorInv, NEW t \in Tables, ReadTable(t)
  PROVE  CollectorInv'
<1>1. /\ Asked(t) /\ AskNext
      /\ UNCHANGED <<device, vendorCaptured, polls, metric>>
  BY DEF ReadTable
<1>2. PICK got \in 0 .. Rows(t) : Walk(Rows(t), got) /\ read' = [read EXCEPT ![t] = got]
  BY DEF ReadTable
<1>3. device \in SnmpDevices /\ vendorCaptured \in BOOLEAN
  BY InvTyped
<1>4. /\ step = Order[t] /\ Order \in [Tables -> {2, 5, 6, 7}]
      /\ \A u \in Tables : Order[u] = Order[t] => u = t
  BY <1>1, <1>3, InvTyped, StepOf, HostKnown DEF Order, Tables
<1>5. step \in {2, 5, 6, 7} /\ step # 0 /\ step < 9
  BY <1>4
<1>6. \A u \in Tables : Rows(u) \in Nat /\ Rows(u)' = Rows(u)
  BY <1>1, <1>3, HostKnown DEF Rows
<1>7. <<>> \notin {device.counts, device.levels} => Rows(t) > 0
  <2>1. device.counts \in Seq(Int) /\ device.levels \in Seq(Nat)
    BY <1>3, HostKnown
  <2>2. (device.counts # <<>> => Len(device.counts) > 0) /\ (device.levels # <<>> => Len(device.levels) > 0)
    BY <2>1, EmptySeq, LenProperties
  <2> QED BY <2>2 DEF Rows
<1>8. /\ ProgressInv' /\ SilenceInv' /\ PaidInv'
      /\ clean' => clean
      /\ clean' /\ Walks => got = Rows(t)
  BY <1>1, <1>2, <1>3, <1>5, <1>6, <1>7, WalkedOnce
<1>9. Reached = step /\ Reached' = step + 1 /\ polls' > 0 /\ polls > 0
  BY <1>1, <1>5, ReachedNext DEF CollectorInv
<1>10. step' = step + 1
  BY <1>1 DEF AskNext
<1>11. ResultInv'
  <2>1. metric.online /\ metric' = metric /\ read \in [Tables -> Nat]
    BY <1>1, <1>5 DEF CollectorInv, ResultInv
  <2>2. read' \in [Tables -> Nat] /\ read'[t] = got /\ \A u \in Tables \ {t} : read'[u] = read[u]
    BY <2>1, <1>2, <1>6
  <2>3. \A u \in Tables : read'[u] <= Rows(u)'
    BY <2>2, <1>2, <1>6 DEF CollectorInv, ResultInv
  <2>4. step' # 1
    BY <1>10, <1>5
  <2>5. metric' \in [online : BOOLEAN, serial : BOOLEAN, pageCount : Nat \cup {NoCount}, split : BOOLEAN]
    BY <2>1 DEF CollectorInv, ResultInv
  <2> QED BY <2>1, <2>2, <2>3, <2>4, <2>5, Zenon DEF ResultInv
<1>12. ReadInv'
  <2>1. SUFFICES ASSUME clean', device'.get PROVE
          /\ Reached' > 1 => ScalarsRead'
          /\ Reached' > 3 => MarkerRead'
          /\ Reached' > 4 => metric'.split = device'.split
          /\ Walks' => \A u \in Tables : Reached' > Order[u] => read'[u] = Rows(u)'
    BY Zenon DEF ReadInv
  <2>2. clean /\ device.get /\ device' = device /\ metric' = metric
    BY <2>1, <1>1, <1>8
  <2>3. /\ Reached > 1 => ScalarsRead
        /\ Reached > 3 => MarkerRead
        /\ Reached > 4 => metric.split = device.split
        /\ Walks => \A u \in Tables : Reached > Order[u] => read[u] = Rows(u)
    BY <2>2, <1>9, Zenon DEF CollectorInv, ReadInv
  <2>4. (ScalarsRead' <=> ScalarsRead) /\ (MarkerRead' <=> MarkerRead) /\ (Walks' <=> Walks)
    BY <2>2 DEF ScalarsRead, MarkerRead, Walks
  <2>5. (Reached' > 3 => Reached > 3) /\ (Reached' > 4 => Reached > 4) /\ Reached > 1
    BY <1>5, <1>9
  <2>6. ASSUME Walks, NEW u \in Tables, Reached' > Order[u] PROVE read'[u] = Rows(u)'
    <3>1. CASE u = t
      BY <3>1, <2>1, <2>6, <1>2, <1>6, <1>8 DEF CollectorInv, ResultInv
    <3>2. CASE u # t
      <4>1. Reached > Order[u]
        BY <3>2, <2>6, <1>4, <1>9
      <4>2. read'[u] = read[u]
        BY <3>2, <1>2
      <4> QED BY <4>1, <4>2, <2>3, <2>6, <1>6
    <3> QED BY <3>1, <3>2
  <2> QED BY <2>2, <2>3, <2>4, <2>5, <2>6
<1> QED BY <1>8, <1>11, <1>12 DEF CollectorInv

LEMMA ReadMarkerInv ==
  ASSUME CollectorInv, ReadMarker
  PROVE  CollectorInv'
<1> DEFINE rows == SubSeq(device.counts, 1, read["counter"])
<1>1. PICK fate \in [{1} -> Fate] :
        LET first == device.get /\ ~expired /\ fate[1] = "whole" /\ device.counts # <<>>
        IN /\ (read["counter"] > 0 \/ expired) => fate[1] = "whole"
           /\ Fates(fate)
           /\ metric' = [metric EXCEPT !.pageCount =
                IF read["counter"] > 0 THEN Markers(rows)
                ELSE IF first /\ device.counts[1] > 0 THEN device.counts[1] ELSE NoMarker]
  BY DEF ReadMarker
<1> DEFINE first == device.get /\ ~expired /\ fate[1] = "whole" /\ device.counts # <<>>
           count == IF read["counter"] > 0 THEN Markers(rows)
                    ELSE IF first /\ device.counts[1] > 0 THEN device.counts[1] ELSE NoCount
<1>2. Fates(fate) /\ metric' = [metric EXCEPT !.pageCount = count]
  BY <1>1 DEF NoMarker
<1>3. /\ Asked("marker") /\ AskNext
      /\ UNCHANGED <<device, vendorCaptured, polls, noBulk, read, wasted>>
  BY DEF ReadMarker
<1>4. step = 3 /\ step # 0 /\ step < 9
  BY <1>3, InvTyped, StepOf
<1>5. /\ ProgressInv' /\ SilenceInv' /\ PaidInv'
      /\ clean' => clean /\ ~expired /\ fate[1] = "whole"
  BY <1>2, <1>3, <1>4, AskedOnce
<1>6. /\ device \in SnmpDevices /\ device.counts \in Seq(Int)
      /\ \A t \in Tables : Rows(t) \in Nat /\ Rows(t)' = Rows(t)
  BY <1>3, InvTyped, HostKnown DEF Rows
<1>7. /\ read["counter"] \in 0 .. Len(device.counts)
      /\ Len(device.counts) \in Nat
  <2>1. read["counter"] \in Nat /\ read["counter"] <= Rows("counter")
    BY DEF CollectorInv, ResultInv, Tables
  <2> QED BY <2>1, <1>6, LenProperties DEF Rows
<1>8. /\ rows \in Seq(Int)
      /\ Len(rows) = read["counter"]
      /\ \A i \in 1 .. read["counter"] : rows[i] = device.counts[i]
  <2>1. \A i \in 1 .. read["counter"] : device.counts[i] \in Int
    BY <1>6, <1>7, ElementOfSeq
  <2>2. /\ rows \in Seq(Int)
        /\ Len(rows) = IF 1 <= read["counter"] THEN read["counter"] - 1 + 1 ELSE 0
        /\ \A i \in 1 .. read["counter"] - 1 + 1 : rows[i] = device.counts[1 + i - 1]
    BY <2>1, <1>7, SubSeqProperties, 1 \in Int, read["counter"] \in Int
  <2> QED BY <2>2, <1>7
<1> HIDE DEF rows
<1>9. /\ Markers(rows) \in Nat
      /\ \A i \in 1 .. read["counter"] : device.counts[i] <= Markers(rows)
  BY <1>8, LargestOf
<1>10. device.counts # <<>> => device.counts[1] \in Int /\ Len(device.counts) >= 1
  BY <1>6, EmptySeq, LenProperties, ElementOfSeq
<1>11. count \in Nat \cup {NoCount}
  BY <1>9, <1>10
<1>12. /\ metric'.pageCount = count
       /\ metric'.online = metric.online /\ metric'.serial = metric.serial
       /\ metric'.split = metric.split
       /\ metric' \in [online : BOOLEAN, serial : BOOLEAN, pageCount : Nat \cup {NoCount}, split : BOOLEAN]
  <2> HIDE DEF count
  <2> QED BY <1>2, <1>11 DEF CollectorInv, ResultInv
<1>13. ResultInv'
  <2>1. read' = read /\ metric.online /\ read \in [Tables -> Nat]
    BY <1>3, <1>4 DEF CollectorInv, ResultInv
  <2>2. step' # 1
    BY <1>3, <1>4 DEF AskNext
  <2>3. \A t \in Tables : read'[t] <= Rows(t)'
    BY <2>1, <1>6 DEF CollectorInv, ResultInv
  <2> QED BY <2>1, <2>2, <2>3, <1>12, Zenon DEF ResultInv
<1>14. Reached = 3 /\ Reached' = 4 /\ polls > 0
  BY <1>3, <1>4, ReachedNext DEF CollectorInv, ProgressInv
<1>15. ReadInv'
  <2>1. SUFFICES ASSUME clean', device'.get PROVE
          /\ Reached' > 1 => ScalarsRead'
          /\ Reached' > 3 => MarkerRead'
          /\ ~(Reached' > 4)
          /\ Walks' => \A u \in Tables : Reached' > Order[u] => read'[u] = Rows(u)'
    BY Zenon DEF ReadInv
  <2>2. clean /\ ~expired /\ fate[1] = "whole" /\ device.get /\ device' = device /\ read' = read
    BY <2>1, <1>3, <1>5
  <2>3. /\ Reached > 1 => ScalarsRead
        /\ Walks => \A u \in Tables : Reached > Order[u] => read[u] = Rows(u)
    BY <2>2, <1>14, Zenon DEF CollectorInv, ReadInv
  <2>4. ScalarsRead /\ (ScalarsRead' <=> ScalarsRead) /\ (Walks' <=> Walks)
    BY <2>2, <2>3, <1>12, <1>14 DEF ScalarsRead, Walks
  <2>5. \A u \in Tables : (4 > Order[u]) => (3 > Order[u])
    BY DEF Order, Tables
  <2>6. Walks => read["counter"] = Len(device.counts)
    <3>1. "counter" \in Tables /\ 3 > Order["counter"] /\ Rows("counter") = Len(device.counts)
      BY DEF Order, Tables, Rows
    <3> QED BY <3>1, <2>3, <1>14
  <2>7. ASSUME Walks, NEW i \in DOMAIN device.counts PROVE device.counts[i] <= count
    <3>1. i \in 1 .. Len(device.counts)
      BY <1>6, <2>7, LenProperties
    <3>2. read["counter"] = Len(device.counts) /\ read["counter"] > 0
      BY <3>1, <2>6, <2>7, <1>7
    <3>3. count = Markers(rows)
      BY <3>2
    <3> QED BY <3>1, <3>2, <3>3, <1>9
  <2>8. ASSUME device.counts # <<>>, device.counts[1] > 0 PROVE count # NoCount
    <3>1. CASE read["counter"] > 0
      BY <3>1, <1>9 DEF NoCount
    <3>2. CASE ~(read["counter"] > 0)
      <4>1. count = device.counts[1]
        BY <3>2, <2>2, <2>8
      <4> QED BY <4>1, <2>8, <1>10 DEF NoCount
    <3> QED BY <3>1, <3>2
  <2>9. MarkerRead'
    <3> HIDE DEF count
    <3>1. /\ Walks => \A i \in DOMAIN device.counts : device.counts[i] <= count
          /\ device.counts # <<>> /\ device.counts[1] > 0 => count # NoCount
      BY <2>7, <2>8, Zenon
    <3> QED BY <3>1, <2>2, <2>4, <1>12 DEF MarkerRead
  <2> QED BY <2>2, <2>3, <2>4, <2>5, <2>9, <1>6, <1>14
<1> QED BY <1>5, <1>13, <1>15 DEF CollectorInv

LEMMA ReadSplitInv ==
  ASSUME CollectorInv, ReadSplit
  PROVE  CollectorInv'
<1>1. PICK fate \in [{1} -> Fate] :
        /\ Fates(fate)
        /\ metric' = [metric EXCEPT !.split = device.split /\ ~expired /\ fate[1] = "whole"]
  BY DEF ReadSplit
<1>2. /\ Asked("split") /\ AskNext
      /\ UNCHANGED <<device, vendorCaptured, polls, noBulk, read, wasted>>
  BY DEF ReadSplit
<1>3. step = 4 /\ step # 0 /\ step < 9
  BY <1>2, InvTyped, StepOf
<1>4. /\ ProgressInv' /\ SilenceInv' /\ PaidInv'
      /\ clean' => clean /\ ~expired /\ fate[1] = "whole"
  BY <1>1, <1>2, <1>3, AskedOnce
<1>5. /\ device \in SnmpDevices /\ device.split \in BOOLEAN /\ expired \in BOOLEAN
      /\ \A t \in Tables : Rows(t)' = Rows(t)
  BY <1>2, InvTyped, HostKnown DEF Rows
<1>6. /\ metric'.split = (device.split /\ ~expired /\ fate[1] = "whole")
      /\ metric'.online = metric.online /\ metric'.serial = metric.serial
      /\ metric'.pageCount = metric.pageCount
      /\ metric' \in [online : BOOLEAN, serial : BOOLEAN, pageCount : Nat \cup {NoCount}, split : BOOLEAN]
  BY <1>1, <1>5 DEF CollectorInv, ResultInv
<1>7. ResultInv'
  <2>1. read' = read /\ metric.online /\ read \in [Tables -> Nat]
    BY <1>2, <1>3 DEF CollectorInv, ResultInv
  <2>2. step' # 1
    BY <1>2, <1>3 DEF AskNext
  <2>3. \A t \in Tables : read'[t] <= Rows(t)'
    BY <2>1, <1>5 DEF CollectorInv, ResultInv
  <2> QED BY <2>1, <2>2, <2>3, <1>6, Zenon DEF ResultInv
<1>8. Reached = 4 /\ Reached' = 5 /\ polls > 0
  BY <1>2, <1>3, ReachedNext DEF CollectorInv, ProgressInv
<1>9. ReadInv'
  <2>1. SUFFICES ASSUME clean', device'.get PROVE
          /\ Reached' > 1 => ScalarsRead'
          /\ Reached' > 3 => MarkerRead'
          /\ Reached' > 4 => metric'.split = device'.split
          /\ Walks' => \A u \in Tables : Reached' > Order[u] => read'[u] = Rows(u)'
    BY Zenon DEF ReadInv
  <2>2. clean /\ ~expired /\ fate[1] = "whole" /\ device.get /\ device' = device /\ read' = read
    BY <2>1, <1>2, <1>4
  <2>3. /\ Reached > 1 => ScalarsRead
        /\ Reached > 3 => MarkerRead
        /\ Walks => \A u \in Tables : Reached > Order[u] => read[u] = Rows(u)
    BY <2>2, <1>8, Zenon DEF CollectorInv, ReadInv
  <2>4. (ScalarsRead' <=> ScalarsRead) /\ (MarkerRead' <=> MarkerRead) /\ (Walks' <=> Walks)
    BY <2>2, <1>6 DEF ScalarsRead, MarkerRead, Walks
  <2>5. \A u \in Tables : (5 > Order[u]) => (4 > Order[u])
    BY DEF Order, Tables
  <2>6. metric'.split = device'.split
    BY <2>2, <1>5, <1>6
  <2> QED BY <2>2, <2>3, <2>4, <2>5, <2>6, <1>5, <1>8
<1> QED BY <1>4, <1>7, <1>9 DEF CollectorInv

LEMMA ResultsKept ==
  ASSUME CollectorInv, step \in {8, 9}, UNCHANGED <<device, polls, read, metric>>,
         AskNext \/ Finished, clean' => clean
  PROVE  ResultInv' /\ ReadInv'
<1>1. step # 0 /\ polls > 0 /\ device \in SnmpDevices
  BY DEF CollectorInv, ProgressInv
<1>2. Reached = step /\ Reached' \in {9, 10}
  <2>1. Reached = step /\ (AskNext => Reached' = step + 1) /\ (Finished => Reached' = 10)
    BY <1>1, ReachedNext DEF CollectorInv
  <2> QED BY <2>1
<1>3. \A t \in Tables : Rows(t)' = Rows(t)
  BY DEF Rows
<1>4. step' # 1 /\ metric.online
  <2>1. AskNext => step' # 1
    BY DEF AskNext
  <2>2. Finished => step' # 1
    BY DEF Finished
  <2> QED BY <2>1, <2>2 DEF CollectorInv, ResultInv
<1>5. ResultInv'
  BY <1>3, <1>4 DEF CollectorInv, ResultInv
<1>6. ReadInv'
  <2>1. SUFFICES ASSUME clean', device'.get PROVE
          /\ ScalarsRead' /\ MarkerRead' /\ metric'.split = device'.split
          /\ Walks' => \A u \in Tables : read'[u] = Rows(u)'
    BY Zenon DEF ReadInv
  <2>2. clean /\ device.get
    BY <2>1
  <2>3. /\ Reached > 1 => ScalarsRead
        /\ Reached > 3 => MarkerRead
        /\ Reached > 4 => metric.split = device.split
        /\ Walks => \A u \in Tables : Reached > Order[u] => read[u] = Rows(u)
    BY <2>2, <1>1, Zenon DEF CollectorInv, ReadInv
  <2>4. (ScalarsRead' <=> ScalarsRead) /\ (MarkerRead' <=> MarkerRead) /\ (Walks' <=> Walks)
    BY DEF ScalarsRead, MarkerRead, Walks
  <2>5. Reached > 1 /\ Reached > 3 /\ Reached > 4 /\ \A u \in Tables : Reached > Order[u]
    BY <1>2 DEF Order, Tables
  <2> QED BY <2>3, <2>4, <2>5, <1>3
<1> QED BY <1>5, <1>6

LEMMA CaptureRawInv ==
  ASSUME CollectorInv, CaptureRaw
  PROVE  CollectorInv'
<1>1. Asked("raw") /\ UNCHANGED <<device, vendorCaptured, polls, read, metric>>
  BY DEF CaptureRaw
<1>2. step = 8 /\ step \in {8, 9} /\ step # 0 /\ step < 9
  BY <1>1, InvTyped, StepOf
<1>3. /\ vendorCaptured \in BOOLEAN /\ noBulk \in BOOLEAN /\ expired \in BOOLEAN /\ clean \in BOOLEAN
      /\ cuts \in 0 .. MaxCuts /\ wasted \in Nat /\ (clean => ~expired)
      /\ (noBulk => device.next \/ device.v1)
  BY DEF CollectorInv, ProgressInv, SilenceInv
<1>4. CASE UNCHANGED <<noBulk, cuts, expired, clean, wasted>> /\ Finished
  <2>1. ProgressInv' /\ SilenceInv'
    BY <1>1, <1>2, <1>3, <1>4, RequestMade DEF CollectorInv
  <2>2. PaidInv'
    BY <1>1, <1>4 DEF CollectorInv, PaidInv, Paid
  <2>3. ResultInv' /\ ReadInv'
    BY <1>1, <1>2, <1>4, ResultsKept
  <2> QED BY <2>1, <2>2, <2>3 DEF CollectorInv
<1>5. CASE AskNext /\ \E got \in 0 .. 1 : Walk(1, got)
  <2>1. PICK got \in 0 .. 1 : Walk(1, got)
    BY <1>5
  <2>2. ProgressInv' /\ SilenceInv' /\ PaidInv' /\ (clean' => clean)
    BY <1>1, <1>2, <1>3, <1>5, <2>1, WalkedOnce
  <2>3. ResultInv' /\ ReadInv'
    BY <1>1, <1>2, <1>5, <2>2, ResultsKept
  <2> QED BY <2>2, <2>3 DEF CollectorInv
<1> QED BY <1>4, <1>5 DEF CaptureRaw

LEMMA CaptureVendorInv ==
  ASSUME CollectorInv, CaptureVendor
  PROVE  CollectorInv'
<1>1. Asked("vendor") /\ Finished /\ UNCHANGED <<device, polls, read, metric>>
  BY DEF CaptureVendor
<1>2. step = 9 /\ step \in {8, 9} /\ step # 0
  BY <1>1, InvTyped, StepOf
<1>3. /\ vendorCaptured \in BOOLEAN /\ noBulk \in BOOLEAN /\ expired \in BOOLEAN /\ clean \in BOOLEAN
      /\ cuts \in 0 .. MaxCuts /\ wasted \in Nat /\ (clean => ~expired)
      /\ (noBulk => device.next \/ device.v1)
  BY DEF CollectorInv, ProgressInv, SilenceInv
<1>4. CASE UNCHANGED <<vendorCaptured, noBulk, cuts, expired, clean, wasted>>
  <2>1. ProgressInv' /\ SilenceInv'
    BY <1>1, <1>2, <1>3, <1>4, RequestMade DEF CollectorInv
  <2>2. PaidInv'
    BY <1>1, <1>4 DEF CollectorInv, PaidInv, Paid
  <2>3. ResultInv' /\ ReadInv'
    BY <1>1, <1>2, <1>4, ResultsKept
  <2> QED BY <2>1, <2>2, <2>3 DEF CollectorInv
<1>5. CASE vendorCaptured' = TRUE /\ \E got \in 0 .. 1 : Walk(1, got)
  <2>1. PICK got \in 0 .. 1 : Walk(1, got)
    BY <1>5
  <2>2. vendorCaptured' \in BOOLEAN
    BY <1>5
  <2>3. ProgressInv' /\ SilenceInv' /\ PaidInv' /\ (clean' => clean)
    BY <1>1, <1>2, <2>1, <2>2, WalkedOnce
  <2>4. ResultInv' /\ ReadInv'
    BY <1>1, <1>2, <2>3, ResultsKept
  <2> QED BY <2>3, <2>4 DEF CollectorInv
<1>6. \/ UNCHANGED <<vendorCaptured, noBulk, cuts, expired, clean, wasted>>
      \/ vendorCaptured' = TRUE /\ \E got \in 0 .. 1 : Walk(1, got)
  BY DEF CaptureVendor
<1> QED BY <1>4, <1>5, <1>6

LEMMA CollectorStarts == CollectorInit => CollectorInv
<1> SUFFICES ASSUME CollectorInit PROVE CollectorInv
  OBVIOUS
<1>1. /\ device \in SnmpDevices /\ noBulkHost = FALSE /\ vendorCaptured = FALSE
      /\ polls = 0 /\ cuts = 0 /\ step = 0 /\ noBulk = FALSE /\ expired = FALSE
      /\ read = [t \in Tables |-> 0] /\ metric = NoMetric /\ clean = TRUE /\ wasted = 0
  BY DEF CollectorInit
<1>2. ProgressInv
  <2>1. polls \in 0 .. MaxPolls /\ cuts \in 0 .. MaxCuts
    BY <1>1, CollectorAssumption
  <2>2. wasted \in Nat /\ step \in 0 .. 9 /\ ~(step # 0)
    BY <1>1
  <2> QED BY <1>1, <2>1, <2>2 DEF ProgressInv
<1>3. SilenceInv
  BY <1>1 DEF SilenceInv
<1>4. PaidInv
  BY <1>1 DEF PaidInv, Paid
<1>5. ResultInv
  BY <1>1, HostKnown DEF ResultInv, NoMetric
<1>6. ReadInv
  BY <1>1 DEF ReadInv
<1> QED BY <1>2, <1>3, <1>4, <1>5, <1>6 DEF CollectorInv

LEMMA CollectorSteps == CollectorInv /\ [CollectorNext]_cvars => CollectorInv'
<1> SUFFICES ASSUME CollectorInv, [CollectorNext]_cvars PROVE CollectorInv'
  OBVIOUS
<1>1. CASE BeginPoll
  BY <1>1, BeginPollInv
<1>2. CASE ReadScalars
  BY <1>2, ReadScalarsInv
<1>3. CASE \E t \in Tables : ReadTable(t)
  BY <1>3, ReadTableInv
<1>4. CASE ReadMarker
  BY <1>4, ReadMarkerInv
<1>5. CASE ReadSplit
  BY <1>5, ReadSplitInv
<1>6. CASE CaptureRaw
  BY <1>6, CaptureRawInv
<1>7. CASE CaptureVendor
  BY <1>7, CaptureVendorInv
<1>8. CASE UNCHANGED cvars
  BY <1>8 DEF cvars, CollectorInv, ProgressInv, SilenceInv, PaidInv, Paid, ResultInv, ReadInv,
     Reached, ScalarsRead, MarkerRead, Walks, Rows
<1> QED BY <1>1, <1>2, <1>3, <1>4, <1>5, <1>6, <1>7, <1>8 DEF CollectorNext

(* Type correctness of a poll: no row is read of a host that did not answer  *)
(* and a remembered host is never asked GETBULK (pollDevice, noBulkHosts).   *)
THEOREM CollectorTyped == CollectorSpec => []CollectorTypeOK
<1>1. CollectorInv => CollectorTypeOK
  <2> SUFFICES ASSUME CollectorInv PROVE CollectorTypeOK
    OBVIOUS
  <2>1. /\ device \in SnmpDevices /\ step \in 0 .. Len(PollRequests) /\ polls \in 0 .. MaxPolls
        /\ cuts \in 0 .. MaxCuts /\ wasted \in Nat
    BY DEF CollectorInv, ProgressInv, PollRequests
  <2>2. {noBulkHost, vendorCaptured, noBulk, expired, clean} \subseteq BOOLEAN
    BY DEF CollectorInv, ProgressInv
  <2>3. metric.pageCount \in Nat \cup {NoCount}
    BY DEF CollectorInv, ResultInv
  <2>4. \A t \in Tables : read[t] \in 0 .. Rows(t) /\ (read[t] > 0 => metric.online)
    <3>1. \A t \in Tables : read[t] \in Nat /\ Rows(t) \in Nat /\ read[t] <= Rows(t)
      BY <2>1, HostKnown DEF CollectorInv, ResultInv
    <3> QED BY <3>1 DEF CollectorInv, ResultInv
  <2>5. step # 0 /\ noBulkHost => noBulk
    BY DEF CollectorInv, SilenceInv
  <2> QED BY <2>1, <2>2, <2>3, <2>4, <2>5 DEF CollectorTypeOK
<1> QED BY <1>1, CollectorStarts, CollectorSteps, PTL DEF CollectorSpec

\* prtMarkerLifeCount is a Counter32.
CountersOK == \A d \in SnmpDevices : d.counts \in Seq(Nat)

LEMMA HonestSteps ==
  ASSUME CountersOK, CollectorInv, CounterHonest, [CollectorNext]_cvars
  PROVE  CounterHonest'
<1>1. device \in SnmpDevices /\ device.counts \in Seq(Nat) /\ device.counts \in Seq(Int)
  BY HostKnown DEF CollectorInv, ProgressInv, CountersOK
<1>2. device' = device
  BY DEF CollectorNext, BeginPoll, ReadScalars, ReadTable, ReadMarker, ReadSplit, CaptureRaw,
     CaptureVendor, cvars
<1>3. CASE metric'.pageCount \in {NoCount, metric.pageCount}
  BY <1>2, <1>3 DEF CounterHonest
<1>4. CASE ReadMarker
  <2> DEFINE n == read["counter"]
             rows == SubSeq(device.counts, 1, n)
  <2>1. n \in 0 .. Len(device.counts)
    <3>1. n \in Nat /\ n <= Rows("counter")
      BY DEF CollectorInv, ResultInv, Tables
    <3> QED BY <3>1, <1>1, LenProperties DEF Rows
  <2>2. /\ rows \in Seq(Int) /\ rows \in Seq(Nat)
        /\ Len(rows) = n
        /\ \A i \in 1 .. n : rows[i] = device.counts[i]
    <3>1. \A i \in 1 .. n : device.counts[i] \in Nat
      BY <1>1, <2>1, ElementOfSeq
    <3>2. /\ rows \in Seq(Nat)
          /\ Len(rows) = IF 1 <= n THEN n - 1 + 1 ELSE 0
          /\ \A i \in 1 .. n - 1 + 1 : rows[i] = device.counts[1 + i - 1]
      BY <3>1, <2>1, SubSeqProperties, 1 \in Int, n \in Int
    <3> QED BY <3>2, <2>1
  <2> HIDE DEF rows
  <2>3. ToSet(rows) \subseteq ToSet(device.counts)
    <3>1. DOMAIN rows = 1 .. n /\ DOMAIN device.counts = 1 .. Len(device.counts)
      BY <2>2, <1>1, LenProperties
    <3>2. \A i \in 1 .. n : i \in DOMAIN device.counts
      BY <3>1, <2>1
    <3> QED BY <3>1, <3>2, <2>2 DEF ToSet
  <2>4. ASSUME n > 0 PROVE Markers(rows) \in ToSet(device.counts)
    <3>1. Markers(rows) \in {0} \cup ToSet(rows) /\ rows[1] <= Markers(rows)
      BY <2>2, <2>4, <2>1, LargestOf
    <3>2. rows[1] \in Nat /\ rows[1] \in ToSet(rows)
      BY <2>2, <2>4, <2>1, ElementOfSeq, LenProperties DEF ToSet
    <3>3. Markers(rows) = 0 => rows[1] = 0
      BY <3>1, <3>2
    <3> QED BY <3>1, <3>2, <3>3, <2>3
  <2>5. device.counts # <<>> => device.counts[1] \in ToSet(device.counts)
    <3>1. device.counts # <<>> => 1 \in DOMAIN device.counts
      BY <1>1, EmptySeq, LenProperties
    <3> QED BY <3>1 DEF ToSet
  <2>6. \/ metric' = [metric EXCEPT !.pageCount = NoCount]
        \/ n > 0 /\ metric' = [metric EXCEPT !.pageCount = Markers(rows)]
        \/ device.counts # <<>> /\ metric' = [metric EXCEPT !.pageCount = device.counts[1]]
    BY <1>4 DEF ReadMarker, NoMarker, rows
  <2>7. metric \in [online : BOOLEAN, serial : BOOLEAN, pageCount : Nat \cup {NoCount}, split : BOOLEAN]
    BY DEF CollectorInv, ResultInv
  <2>8. metric'.pageCount \in {NoCount} \cup ToSet(device.counts)
    BY <2>4, <2>5, <2>6, <2>7
  <2> QED BY <2>8, <1>2 DEF CounterHonest
<1>5. CASE BeginPoll
  <2>1. metric'.pageCount = NoCount
    BY <1>5 DEF BeginPoll, NoMetric
  <2> QED BY <2>1, <1>3
<1>6. CASE ReadScalars \/ ReadSplit \/ CaptureRaw \/ CaptureVendor \/ UNCHANGED cvars
           \/ \E t \in Tables : ReadTable(t)
  <2>1. metric \in [online : BOOLEAN, serial : BOOLEAN, pageCount : Nat \cup {NoCount}, split : BOOLEAN]
    BY DEF CollectorInv, ResultInv
  <2>2. ReadScalars => metric'.pageCount = metric.pageCount
    BY <2>1 DEF ReadScalars
  <2>3. metric'.pageCount = metric.pageCount
    BY <1>6, <2>1, <2>2 DEF ReadSplit, CaptureRaw, CaptureVendor, ReadTable, cvars
  <2> QED BY <2>3, <1>3
<1> QED BY <1>4, <1>5, <1>6 DEF CollectorNext

(* Whatever is lost or cut short, a poll sends a counter the device has or    *)
(* none, reads everything of a host that answers when nothing is lost, and    *)
(* asks GETBULK in vain once (pollDevice, walkPageCount, session.walk).       *)
THEOREM PollIsSound == CountersOK => (CollectorSpec => []PollSound)
<1>1. ASSUME CollectorInv, CounterHonest PROVE PollSound
  <2>1. SilencePaidOnce
    <3>1. wasted \in Nat /\ cuts \in Nat /\ Paid \in {0, 1}
      BY <1>1, InvTyped DEF Paid
    <3>2. wasted <= cuts + Paid => wasted <= 1 + cuts
      BY <3>1
    <3> QED BY <3>2, <1>1 DEF CollectorInv, PaidInv, SilencePaidOnce
  <2>2. EverythingRead
    <3>1. SUFFICES ASSUME step = 0, polls > 0, clean, device.get
                   PROVE  /\ metric.online /\ metric.serial = device.serial /\ metric.split = device.split
                          /\ Walks => /\ \A t \in Tables : read[t] = Rows(t)
                                      /\ \A i \in DOMAIN device.counts : device.counts[i] <= metric.pageCount
                          /\ device.counts # <<>> /\ device.counts[1] > 0 => metric.pageCount # NoCount
      BY Zenon DEF EverythingRead, Polled, Walks
    <3>2. Reached = 10
      <4>1. polls # 0
        BY <3>1
      <4> QED BY <4>1, <3>1 DEF Reached, PollRequests
    <3>3. /\ Reached > 1 => ScalarsRead
          /\ Reached > 3 => MarkerRead
          /\ Reached > 4 => metric.split = device.split
          /\ Walks => \A u \in Tables : Reached > Order[u] => read[u] = Rows(u)
      BY <1>1, <3>1, Zenon DEF CollectorInv, ReadInv
    <3>4. \A u \in Tables : 10 > Order[u]
      BY DEF Order, Tables
    <3>5. ScalarsRead /\ MarkerRead /\ metric.split = device.split
          /\ (Walks => \A u \in Tables : read[u] = Rows(u))
      BY <3>2, <3>3, <3>4
    <3> QED BY <3>5, Zenon DEF ScalarsRead, MarkerRead
  <2> QED BY <1>1, <2>1, <2>2 DEF PollSound
<1>2. CollectorInit => CounterHonest
  BY DEF CollectorInit, CounterHonest, NoMetric
<1>3. SUFFICES ASSUME CountersOK PROVE CollectorSpec => []PollSound
  OBVIOUS
<1>4. CollectorInv /\ CounterHonest /\ [CollectorNext]_cvars => CounterHonest'
  BY <1>3, HonestSteps
<1>5. CollectorInv /\ CounterHonest => PollSound
  BY <1>1
<1> QED BY <1>2, <1>4, <1>5, CollectorStarts, CollectorSteps, PTL DEF CollectorSpec
-----------------------------------------------------------------------------
(* All of the parts together.                                               *)

\* Each part, seen alone, takes its own steps or rests.
LEMMA ContractsPart == BillingSpec => ContractsSpec
<1>1. BillingInit => ContractsAlone
  BY DEF BillingInit
<1>2. [BillingNext]_billingVars => [ContractsNext]_<<contractVars, today>>
  BY DEF BillingNext, billingVars
<1> QED BY <1>1, <1>2, PTL DEF BillingSpec, ContractsSpec

LEMMA PagesPart == BillingSpec => Spec
<1>1. BillingInit => Init
  BY DEF BillingInit
<1>2. [BillingNext]_billingVars => [Next]_vars
  BY DEF BillingNext, billingVars
<1> QED BY <1>1, <1>2, PTL DEF BillingSpec, Spec

LEMMA TrendPart == BillingSpec => PageTrendSpec
<1>1. BillingInit => PageTrendInit
  BY DEF BillingInit
<1>2. [BillingNext]_billingVars => [PageTrendNext]_readings
  BY DEF BillingNext, billingVars
<1> QED BY <1>1, <1>2, PTL DEF BillingSpec, PageTrendSpec

LEMMA ForecastPart == BillingSpec => SupplyForecastSpec
<1>1. BillingInit => SupplyForecastInit
  BY DEF BillingInit
<1>2. [BillingNext]_billingVars => [SupplyForecastNext]_reports
  BY DEF BillingNext, billingVars
<1> QED BY <1>1, <1>2, PTL DEF BillingSpec, SupplyForecastSpec

LEMMA CollectorPart == BillingSpec => CollectorSpec
<1>1. BillingInit => CollectorInit
  BY DEF BillingInit
<1>2. [BillingNext]_billingVars => [CollectorNext]_cvars
  BY DEF BillingNext, billingVars
<1> QED BY <1>1, <1>2, PTL DEF BillingSpec, CollectorSpec

(* Type correctness of what a bill is made of, for every calendar, contract *)
(* table, fleet and host (contracts.service.ts, device-pages.service.ts,    *)
(* collector.go).                                                           *)
THEOREM BillingTyped == BillingSpec => []BillingTypesOK
<1>1. ContractsTypeOK /\ PagesTypeOK /\ CollectorTypeOK => BillingTypesOK
  BY DEF BillingTypesOK
<1> QED BY <1>1, ContractsPart, PagesPart, CollectorPart, ContractsTyped, PagesTyped,
           CollectorTyped, PTL

\* The terms of NeverBilledMore, NoBlendedForecast and PollIsSound: no counter
\* reads low beside a fault that cannot be told from it, no supply is more than
\* full, and no counter is negative.
HonestDevices == BillableFleet /\ NeverOverfull /\ CountersOK

(* Bills are true to the counters: while none is reset every page is billed *)
(* in exactly one period, and whatever is reset no more is billed than the  *)
(* engine did; charts and forecasts agree with the readings they are of,    *)
(* and polls send only counters the device has (device-pages.service.ts,    *)
(* devices.service.ts, supply-forecast.util.ts, collector.go).              *)
THEOREM BillingHolds ==
  HonestDevices => (BillingSpec => [](/\ BillingTypesOK /\ BilledOnce /\ NeverOverbilled
                                      /\ TrendSound /\ ForecastSound /\ PollSound))
<1> SUFFICES ASSUME HonestDevices
             PROVE  BillingSpec => [](/\ BillingTypesOK /\ BilledOnce /\ NeverOverbilled
                                      /\ TrendSound /\ ForecastSound /\ PollSound)
  OBVIOUS
<1>1. Spec => []NeverOverbilled
  BY NeverBilledMore DEF HonestDevices
<1>2. SupplyForecastSpec => []ForecastSound
  BY NoBlendedForecast DEF HonestDevices
<1>3. CollectorSpec => []PollSound
  BY PollIsSound DEF HonestDevices
<1> QED BY <1>1, <1>2, <1>3, BillingTyped, PagesPart, TrendPart, ForecastPart, CollectorPart,
           EveryPageBilledOnce, BothChartsAgree, PTL

(* And the contracts under them: with one request at a time no two are      *)
(* active and renegotiating leaves no day uncovered, and the first day of a *)
(* contract is billed by it (contracts.service.ts).                         *)
THEOREM BilledContractsHold ==
  ASSUME NEW o, ContractOps = {o}
  PROVE  BillingSpec => /\ []AtMostOneActive
                        /\ NewestWinsItsFirstDay
                        /\ RenegotiationKeepsCoverage
<1>1. ContractsSpec => []AtMostOneActive
  BY SerialOneActive
<1>2. \A p, q \in ContractOps : p = q
  OBVIOUS
<1>3. ContractsSpec => RenegotiationKeepsCoverage
  BY <1>2, RenegotiationCovers
<1> QED BY <1>1, <1>3, ContractsPart, NewestWins, PTL
=============================================================================
