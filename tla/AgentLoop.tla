----------------------------- MODULE AgentLoop -----------------------------
(* The agent's poll loop and its background discovery sweep (run, cycle,    *)
(* maybeDailySweep, startDiscovery and addDiscovered of                     *)
(* agent/internal/svc/service.go), with the device list they share and the  *)
(* discovered.yaml beside it (agent/internal/config).  The loop is one      *)
(* goroutine, a sweep another, at most one at a time; a cycle polls the     *)
(* list as it was when the cycle began and may outlast several sweeps.      *)
EXTENDS Integers, FiniteSets

CONSTANTS
  Printers,
  Configured,   \* those typed into config.yaml
  Levels,       \* what a sweep may learn of a printer, of AllLevels
  Answering,    \* printers that answer SNMP whenever they are asked
  MaxKills,     \* bound on the times the process ends
  MaxFileFaults \* bound on failing reads and writes of discovered.yaml

VARIABLES
  devices,      \* memory: what is known of each printer
  disk,         \* discovered.yaml, or TornFile
  part,         \* the part of the local day
  swept,        \* sweptDay is today
  poller,         \* run: where it stands, and the printers it is polling
  search,        \* the sweep: where it stands, who asked, what was new
  handed,       \* discoveryDone, a channel of one count
  unpolled,     \* printers new to the list that no cycle has polled yet
  announced,    \* printers whose count a person was told as found
  kills, fileFaults

memoryVars == <<devices, swept, poller, search, handed, unpolled>>
agentLoopVars == <<memoryVars, disk, part, announced, kills, fileFaults>>

\* Unknown; up without SNMP; that with the model from its web page; by SNMP.
AllLevels == 0 .. 3
Unknown == 0
BySNMP == 3
NoSNMP(level) == level \in {1, 2}
TornFile == [p \in Printers |-> -1]
Nothing == [p \in Printers |-> Unknown]
DayParts == {"early", "day", "late"}    \* before 09:00, before 14:00, from 14:00

ASSUME AgentLoopAssumption ==
  /\ Configured \subseteq Printers /\ Answering \subseteq Printers
  /\ {Unknown, BySNMP} \subseteq Levels /\ Levels \subseteq AllLevels
  /\ MaxKills \in Nat /\ MaxFileFaults \in Nat

\* MergeDevices: appended when its host is new; replaced when it was known
\* without SNMP and now answers, or now has a model.
Learns(old, found) ==
  \/ old = Unknown /\ found # Unknown
  \/ NoSNMP(old) /\ (found = BySNMP \/ (found = 2 /\ old = 1))
\* Mutant: the sweep's own result is the new list.
Merge_Replaces(known, found) == found

Merge(known, found) ==
  [p \in Printers |-> IF Learns(known[p], found[p]) THEN found[p] ELSE known[p]]
Added(known, found) == {p \in Printers : Learns(known[p], found[p])}
Only(added, found) == [p \in Printers |-> IF p \in added THEN found[p] ELSE Unknown]

\* Load: config.yaml's devices and, when it can be read, discovered.yaml's.
FromConfig == [p \in Printers |-> IF p \in Configured THEN BySNMP ELSE Unknown]
Readable(file) == IF file = TornFile THEN Nothing ELSE file
\* Mutant: a restart reads config.yaml only.
Loaded_ConfigOnly(file) == FromConfig
Loaded(file) == Merge(FromConfig, Readable(file))
Listed == {p \in Printers : devices[p] # Unknown}

NoSearch == [pc |-> "off", by |-> "none", added |-> {}, found |-> Nothing]
SearchOf(who) == [NoSearch EXCEPT !.pc = "probe", !.by = who]
AtStart == [pc |-> "start", polling |-> {}]

AgentLoopInit ==
  /\ disk = Nothing /\ devices = Loaded(Nothing)
  /\ part \in DayParts /\ swept = FALSE
  /\ poller = AtStart /\ search = NoSearch
  /\ handed = "empty" /\ unpolled = {} /\ announced = {}
  /\ kills = 0 /\ fileFaults = 0

Discovering == search.pc # "off"
Calm == UNCHANGED <<part, kills, fileFaults>>
-----------------------------------------------------------------------------
\* run: with nothing to poll it looks right away; then the first cycle.
StartUp ==
  /\ poller.pc = "start"
  /\ search' = IF Listed = {} THEN SearchOf("loop") ELSE search
  /\ poller' = [pc |-> "cycle", polling |-> Listed]
  /\ unpolled' = unpolled \ Listed
  /\ UNCHANGED <<devices, disk, swept, handed, announced>> /\ Calm

\* cycle: PollAll works on a copy of the list.
BeginCycle(kind) ==
  poller' = [pc |-> kind, polling |-> Listed] /\ unpolled' = unpolled \ Listed

\* Mutant: the afternoon is not special.
SweepDue_Online(online) ==
  /\ ~swept /\ part # "early"
  /\ 10 * Cardinality(online) >= 9 * Cardinality(poller.polling)

\* dailySweepDue: from 09:00, nine in ten of those polled answered, or 14:00.
SweepDue(online) ==
  /\ ~swept /\ part # "early"
  /\ 10 * Cardinality(online) >= 9 * Cardinality(poller.polling) \/ part = "late"
\* The end of a cycle of the start or of the ticker, and maybeDailySweep with
\* what it returned.
EndCycle ==
  /\ poller.pc = "cycle"
  /\ \E online \in SUBSET poller.polling :
       /\ Answering \cap poller.polling \subseteq online
       /\ search' = IF SweepDue(online) /\ ~Discovering THEN SearchOf("loop") ELSE search
  /\ poller' = [pc |-> "select", polling |-> {}]
  /\ UNCHANGED <<devices, disk, swept, handed, unpolled, announced>> /\ Calm

\* The end of a cycle run for a sweep's new printers: no sweep follows it.
EndExtraCycle ==
  /\ poller.pc = "extra"
  /\ poller' = [pc |-> "select", polling |-> {}]
  /\ UNCHANGED <<devices, disk, swept, search, handed, unpolled, announced>> /\ Calm

\* The select of run: the poll ticker.
PollTick ==
  /\ poller.pc = "select"
  /\ BeginCycle("cycle")
  /\ UNCHANGED <<devices, disk, swept, search, handed, announced>> /\ Calm
\* The select of run: the discovery ticker of an interval set below a day.
DiscoveryTick ==
  /\ poller.pc = "select" /\ ~Discovering
  /\ search' = SearchOf("loop")
  /\ UNCHANGED <<devices, disk, swept, poller, handed, unpolled, announced>> /\ Calm
\* The select of run: a count from a sweep; only a positive one is polled for.
TakeCount ==
  /\ poller.pc = "select" /\ handed # "empty"
  /\ handed' = "empty"
  /\ IF handed = "some" THEN BeginCycle("extra") ELSE UNCHANGED <<poller, unpolled>>
  /\ UNCHANGED <<devices, disk, swept, search, announced>> /\ Calm

\* controlLoop: the DISCOVER command, unless a sweep is running.
Discover ==
  /\ poller.pc # "start" /\ ~Discovering
  /\ search' = SearchOf("command")
  /\ UNCHANGED <<devices, disk, swept, poller, handed, unpolled, announced>> /\ Calm
-----------------------------------------------------------------------------
\* discovery.Run, then addDiscovered's merge under the lock.  A sweep may
\* miss any printer except one that always answers.
Probe ==
  /\ search.pc = "probe"
  /\ \E found \in [Printers -> Levels] :
       /\ \A p \in Answering : found[p] = BySNMP
       /\ devices' = Merge(devices, found)
       /\ LET added == Added(devices, found)
          IN /\ unpolled' = unpolled \cup added
             /\ search' = [search EXCEPT !.pc = IF added = {} THEN "report" ELSE "save",
                                       !.added = added, !.found = found]
  /\ UNCHANGED <<disk, swept, poller, handed, announced>> /\ Calm

\* addDiscovered: what the file holds, or nothing when it cannot be read,
\* with what is new; a write that fails is only logged.
Persisted(file) == Merge(Readable(file), Only(search.added, search.found))
FileFault == fileFaults < MaxFileFaults /\ fileFaults' = fileFaults + 1
Save ==
  /\ search.pc = "save"
  /\ search' = [search EXCEPT !.pc = "report"]
  /\ \/ disk' = Persisted(disk) /\ UNCHANGED fileFaults
     \/ disk' = Persisted(TornFile) /\ FileFault
     \/ disk' = disk /\ FileFault
  /\ UNCHANGED <<devices, swept, poller, handed, unpolled, announced, part, kills>>

\* startDiscovery's goroutine: sweptDay, onDone's ack, then the count, which
\* is dropped when the channel is full, and the next sweep may start.
ReportSearch ==
  /\ search.pc = "report"
  /\ swept' = TRUE
  /\ announced' = IF search.by = "command" THEN announced \cup search.added ELSE announced
  /\ search' = [search EXCEPT !.pc = "hand"]
  /\ UNCHANGED <<devices, disk, poller, handed, unpolled>> /\ Calm

HandOver ==
  /\ search.pc = "hand"
  /\ handed' = IF handed # "empty" THEN handed
               ELSE IF search.added = {} THEN "zero" ELSE "some"
  /\ search' = NoSearch
  /\ UNCHANGED <<devices, disk, swept, poller, unpolled, announced>> /\ Calm
-----------------------------------------------------------------------------
\* The process ends and starts again; a write under way may be torn.
Kill ==
  /\ kills < MaxKills
  /\ kills' = kills + 1
  /\ \/ disk' = disk /\ UNCHANGED fileFaults
     \/ search.pc = "save" /\ disk' = TornFile /\ FileFault
  /\ devices' = Loaded(disk')
  /\ swept' = FALSE /\ poller' = AtStart /\ search' = NoSearch
  /\ handed' = "empty" /\ unpolled' = {}
  /\ UNCHANGED <<part, announced>>

Later ==
  /\ part' = CASE part = "early" -> "day" [] part = "day" -> "late" [] OTHER -> "early"
  /\ swept' = IF part = "late" THEN FALSE ELSE swept
  /\ UNCHANGED <<devices, disk, poller, search, handed, unpolled, announced, kills, fileFaults>>

PollerStep == StartUp \/ EndCycle \/ EndExtraCycle \/ PollTick \/ DiscoveryTick \/ TakeCount
SearchStep == Probe \/ Save \/ ReportSearch \/ HandOver
AgentLoopNext == PollerStep \/ SearchStep \/ Discover \/ Kill \/ Later
AgentLoopSpec == AgentLoopInit /\ [][AgentLoopNext]_agentLoopVars

\* A cycle and a sweep end; select is fair to the poll ticker; it is 14:00 again and again
\* while the agent runs, and an afternoon is longer than a tick and the cycle it begins.
AgentLoopFairness ==
  /\ WF_agentLoopVars(StartUp) /\ WF_agentLoopVars(PollTick \/ TakeCount)
  /\ WF_agentLoopVars(SearchStep) /\ WF_agentLoopVars(EndCycle \/ EndExtraCycle)
  /\ SF_agentLoopVars(part = "late" /\ PollTick)
  /\ SF_agentLoopVars(part = "late" /\ EndCycle)
  /\ WF_agentLoopVars(Later)
-----------------------------------------------------------------------------
(* Type correctness.                                                        *)
AgentLoopTypeOK ==
  /\ devices \in [Printers -> AllLevels]
  /\ disk \in [Printers -> AllLevels] \/ disk = TornFile
  /\ part \in DayParts /\ swept \in BOOLEAN
  /\ poller \in [pc : {"start", "select", "cycle", "extra"}, polling : SUBSET Printers]
  /\ search \in [pc : {"off", "probe", "save", "report", "hand"},
                by : {"none", "loop", "command"},
                added : SUBSET Printers, found : [Printers -> AllLevels]]
  /\ handed \in {"empty", "zero", "some"}
  /\ unpolled \subseteq Listed /\ announced \subseteq Printers
  /\ kills \in Nat /\ fileFaults \in Nat

(* Printers "survive [a restart] if it happens" (addDiscovered): what a     *)
(* person was told the search had found is listed after any number of later *)
(* sweeps and restarts, unless the file could not be read or written.       *)
AnnouncedStay ==
  fileFaults = 0 => \A p \in announced : devices[p] # Unknown

(* No printer is forgotten for good (discovery: a miss "self-heals on the   *)
(* next scheduled sweep"): one that answers SNMP ends up listed as such,    *)
(* although files are torn or lost, restarts throw memory away, and sweeps  *)
(* by command or on the loop's own keep each other out.                     *)
SelfHeals == \A p \in Answering : <>[](devices[p] = BySNMP)

(* A new printer does not stay unpolled: its count may be dropped, but the  *)
(* ticker's next cycle polls it (startDiscovery: "it'll poll anyway").      *)
NewOnesPolled == \A p \in Printers : p \in unpolled ~> p \notin unpolled

(* What a sweep found stays listed and gets polled.                         *)
FoundOnesKept == [][AnnouncedStay']_agentLoopVars /\ NewOnesPolled

(* "loop hasn't drained the previous one yet - it'll poll anyway"           *)
(* (startDiscovery): once the loop waits with nothing handed to it and no   *)
(* sweep running, every printer a sweep added has been polled.              *)
PolledRightAway ==
  poller.pc = "select" /\ handed = "empty" /\ ~Discovering => unpolled = {}
=============================================================================
