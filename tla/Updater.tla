------------------------------ MODULE Updater ------------------------------
(* Self-update and restart of one installed agent: checkForUpdate of        *)
(* agent/internal/svc/service.go, agent/internal/updater, the helpers that  *)
(* cmd/agent/main.go starts, and the releases they come from                *)
(* (api/src/agent-releases).  On Windows a process cannot restart its own   *)
(* service: a detached helper waits for it to exit, swaps the files and     *)
(* starts the service.  Every file operation and every request to the       *)
(* service manager is a step, and the machine may lose power between two.   *)
EXTENDS Integers, FiniteSets

CONSTANTS
  Builds,      \* what may be published: [version, edition]
  FirstBuild,  \* the build installed at first
  Mandatory,   \* versions published as mandatory
  Platforms,   \* of {"windows", "linux"}
  MaxFaults,   \* bound on failing steps and power cuts
  MaxRestarts, \* bound on RESTART commands
  MaxRemovals  \* bound on releases taken back

VARIABLES
  platform, autoUpdate,  \* fixed for the life of the installation
  exe, new, old,         \* the files at exePath, exePath.new and exePath.old
  service,               \* the service manager's view, or "off": no power
  agent,                 \* the build the service's process runs, or NoFile
  update,                \* the holder of the update lock: its goroutine, where it
                         \* stands, the release found, the bytes being served
  restart,               \* the RESTART command
  swapper, starter,      \* the helper of Apply and that of RestartService
  row, stored, publish,  \* releases: rows by version, files by version, the request
  faults, restarts, removals

diskVars == <<exe, new, old>>
fixedVars == <<platform, autoUpdate>>
processVars == <<service, agent, update, restart, swapper, starter>>
releaseVars == <<row, stored, publish, removals>>
updaterVars == <<fixedVars, diskVars, processVars, releaseVars, faults, restarts>>

NoFile == [version |-> 0, edition |-> "none"]
Torn == [version |-> 0, edition |-> "torn"]    \* truncated, cut short or corrupted
AllBuilds == Builds \cup {FirstBuild}
Versions == {b.version : b \in Builds}

ASSUME UpdaterAssumption ==
  /\ \A b \in AllBuilds : b.version \in Nat \ {0}
  /\ Platforms \subseteq {"windows", "linux"} /\ Mandatory \subseteq Versions
  /\ {MaxFaults, MaxRestarts, MaxRemovals} \subseteq Nat

NoUpdate == [by |-> "none", pc |-> "idle", rel |-> NoFile, bytes |-> NoFile]
NoHelper == [pc |-> "none", waits |-> FALSE]   \* waits: the process it waits for lives
WaitingHelper == [pc |-> "wait", waits |-> TRUE]

UpdaterInit ==
  /\ platform \in Platforms /\ autoUpdate \in BOOLEAN
  /\ exe = FirstBuild /\ new = NoFile /\ old = NoFile
  /\ service = "running" /\ agent = FirstBuild
  /\ update = NoUpdate /\ restart = "idle"
  /\ swapper = NoHelper /\ starter = NoHelper
  /\ row = [v \in Versions |-> NoFile] /\ stored = [v \in Versions |-> NoFile]
  /\ publish = [pc |-> "idle", build |-> NoFile]
  /\ faults = 0 /\ restarts = 0 /\ removals = 0

Fault == faults < MaxFaults /\ faults' = faults + 1
-----------------------------------------------------------------------------
\* create: refused for a version that has a row; the file, then the row.
CheckVersion(b) ==
  /\ publish.pc = "idle" /\ row[b.version] = NoFile
  /\ publish' = [pc |-> "write", build |-> b]
  /\ UNCHANGED <<fixedVars, diskVars, processVars, row, stored, removals, faults, restarts>>
WriteRelease ==
  /\ publish.pc = "write"
  /\ stored' = [stored EXCEPT ![publish.build.version] = publish.build]
  /\ publish' = [publish EXCEPT !.pc = "insert"]
  /\ UNCHANGED <<fixedVars, diskVars, processVars, row, removals, faults, restarts>>
InsertRelease ==
  /\ publish.pc = "insert"
  /\ row' = [row EXCEPT ![publish.build.version] = publish.build]
  /\ publish' = [pc |-> "idle", build |-> NoFile]
  /\ UNCHANGED <<fixedVars, diskVars, processVars, stored, removals, faults, restarts>>
\* remove: the row, then the file.
RemoveRelease(v) ==
  /\ publish.pc = "idle" /\ row[v] # NoFile /\ removals < MaxRemovals
  /\ row' = [row EXCEPT ![v] = NoFile]
  /\ publish' = [pc |-> "unlink", build |-> row[v]]
  /\ removals' = removals + 1
  /\ UNCHANGED <<fixedVars, diskVars, processVars, stored, faults, restarts>>
UnlinkRelease ==
  /\ publish.pc = "unlink"
  /\ stored' = [stored EXCEPT ![publish.build.version] = NoFile]
  /\ publish' = [pc |-> "idle", build |-> NoFile]
  /\ UNCHANGED <<fixedVars, diskVars, processVars, row, removals, faults, restarts>>
\* The API stops in the middle of either.
PublishStops ==
  /\ publish.pc # "idle" /\ Fault
  /\ publish' = [pc |-> "idle", build |-> NoFile]
  /\ UNCHANGED <<fixedVars, diskVars, processVars, row, stored, removals, restarts>>
PublishStep ==
  \/ \E b \in Builds : CheckVersion(b)
  \/ \E v \in Versions : RemoveRelease(v)
  \/ WriteRelease \/ InsertRelease \/ UnlinkRelease \/ PublishStops
-----------------------------------------------------------------------------
\* getLatest: the highest version that has a row.
Latest == {b \in AllBuilds : /\ b.version \in Versions /\ row[b.version] = b
                             /\ \A v \in Versions : row[v] = NoFile \/ v <= b.version}
Alive == agent # NoFile
At(where) == Alive /\ update.pc = where
UpdateTo(where) == update' = [update EXCEPT !.pc = where]
Aside == UNCHANGED <<fixedVars, releaseVars, restarts>>
Idle == UNCHANGED <<service, agent, restart, starter>>

\* Mutant: the version asked about is that of the file, not of the process.
IsNewer_OnDisk(b) == b.version > exe.version
\* checkForUpdate: TryLock; a newer release, wanted by the setting, because it
\* is mandatory, or by the command, which the control loop works on alone.
IsNewer(b) == b.version > agent.version
Wanted(b) == autoUpdate \/ b.version \in Mandatory
Check(by) ==
  /\ At("idle") /\ service = "running"
  /\ by = "loop" => restart = "idle"
  /\ \E b \in Latest :
       /\ IsNewer(b)
       /\ by = "loop" \/ Wanted(b)
       /\ update' = [by |-> by, pc |-> "found", rel |-> b, bytes |-> NoFile]
  /\ UNCHANGED <<faults, diskVars, swapper>> /\ Idle /\ Aside

\* Download: the file is opened with O_TRUNC, which Windows refuses while a
\* helper runs from it; a removed release is not served.
InUse == platform = "windows" /\ swapper.pc \in {"wait", "remove", "rename", "move"}
OpenDownload ==
  /\ At("found")
  /\ LET served == stored[update.rel.version]
     IN IF served = NoFile \/ InUse
        THEN update' = NoUpdate /\ UNCHANGED new
        ELSE update' = [update EXCEPT !.pc = "fetch", !.bytes = served] /\ new' = Torn
  /\ UNCHANGED <<faults, exe, old, swapper>> /\ Idle /\ Aside
\* The bytes arrive; or damaged; or the transfer fails and leaves the file.
Receive ==
  /\ At("fetch")
  /\ \/ UpdateTo("verify") /\ new' = update.bytes /\ UNCHANGED faults
     \/ UpdateTo("verify") /\ Fault /\ UNCHANGED new
     \/ update' = NoUpdate /\ Fault /\ UNCHANGED new
  /\ UNCHANGED <<exe, old, swapper>> /\ Idle /\ Aside

\* Mutant: the checksum is not compared.
Verify_Blindly ==
  /\ At("verify")
  /\ UpdateTo("apply")
  /\ UNCHANGED <<faults, diskVars, swapper>> /\ Idle /\ Aside

\* The checksum of what is on disk against the release's.
Verify ==
  /\ At("verify")
  /\ IF new = update.rel THEN UpdateTo("apply") /\ UNCHANGED new
     ELSE update' = NoUpdate /\ new' = NoFile
  /\ UNCHANGED <<faults, exe, old, swapper>> /\ Idle /\ Aside
-----------------------------------------------------------------------------
\* Apply on Windows: the download runs as the helper; then the service is
\* asked to stop, which fails when it already is stopping.
SpawnSwapper ==
  /\ At("apply") /\ platform = "windows"
  /\ \/ swapper' = WaitingHelper /\ UpdateTo("stop") /\ UNCHANGED faults
     \/ Fault /\ update' = NoUpdate /\ UNCHANGED swapper
  /\ UNCHANGED diskVars /\ Idle /\ Aside
StopForUpdate ==
  /\ At("stop")
  /\ \/ service = "running" /\ service' = "stopping" /\ UNCHANGED faults
     \/ service # "running" /\ UNCHANGED <<service, faults>>
     \/ Fault /\ UNCHANGED service
  /\ update' = NoUpdate
  /\ UNCHANGED <<diskVars, agent, restart, swapper, starter>> /\ Aside

\* RESTART: the same dance without files; its process asks for both.
SpawnStarter ==
  /\ Alive /\ service = "running" /\ restart = "idle" /\ update.by # "loop"
  /\ platform = "windows" /\ starter = NoHelper /\ restarts < MaxRestarts
  /\ restarts' = restarts + 1
  /\ \/ exe # NoFile /\ starter' = WaitingHelper /\ restart' = "stop" /\ UNCHANGED faults
     \/ Fault /\ UNCHANGED <<starter, restart>>
  /\ UNCHANGED <<fixedVars, releaseVars, diskVars, service, agent, update, swapper>>
StopForRestart ==
  /\ Alive /\ restart = "stop"
  /\ \/ service = "running" /\ service' = "stopping" /\ UNCHANGED faults
     \/ service # "running" /\ UNCHANGED <<service, faults>>
     \/ Fault /\ UNCHANGED service
  /\ restart' = "idle"
  /\ UNCHANGED <<diskVars, agent, update, swapper, starter>> /\ Aside

\* Stop of service.go, then the end of main: the helpers' wait is over.
Over(h) == [h EXCEPT !.waits = FALSE]
Exit ==
  /\ service = "stopping"
  /\ service' = "stopped" /\ agent' = NoFile
  /\ update' = NoUpdate /\ restart' = "idle"
  /\ swapper' = Over(swapper) /\ starter' = Over(starter)
  /\ UNCHANGED <<faults, diskVars>> /\ Aside

\* Apply on POSIX: an atomic rename, then a restart by the service manager.
RenameInPlace ==
  /\ At("apply") /\ platform = "linux"
  /\ \/ UpdateTo("restart") /\ exe' = new /\ new' = NoFile /\ UNCHANGED faults
     \/ Fault /\ update' = NoUpdate /\ UNCHANGED <<exe, new>>
  /\ UNCHANGED <<old, swapper>> /\ Idle /\ Aside
RestartUnit ==
  /\ platform = "linux" /\ At("restart")
  /\ \/ agent' = exe /\ UNCHANGED faults
     \/ Fault /\ UNCHANGED agent
  /\ update' = NoUpdate
  /\ UNCHANGED <<diskVars, service, restart, swapper, starter>> /\ Aside
RestartOnCommand ==
  /\ platform = "linux" /\ Alive /\ update.by # "loop" /\ restarts < MaxRestarts
  /\ restarts' = restarts + 1
  /\ agent' = exe /\ update' = NoUpdate
  /\ UNCHANGED <<fixedVars, releaseVars, diskVars, service, restart, swapper, starter, faults>>
-----------------------------------------------------------------------------
\* RunHelper.  Waiting() ends with the old process or, after 30 s, in an abort.
SwapAt(where) == swapper.pc = where
SwapTo(where) == swapper' = [swapper EXCEPT !.pc = where]
Agentless == UNCHANGED <<service, agent, update, restart, starter>> /\ Aside
SwapWait ==
  /\ SwapAt("wait")
  /\ \/ ~swapper.waits /\ SwapTo("remove") /\ UNCHANGED faults
     \/ swapper.waits /\ Fault /\ swapper' = NoHelper
  /\ UNCHANGED diskVars /\ Agentless
RemoveLeftover ==
  /\ SwapAt("remove")
  /\ SwapTo("rename")
  /\ old' = NoFile \/ UNCHANGED old
  /\ UNCHANGED <<faults, exe, new>> /\ Agentless
RenameOld ==
  /\ SwapAt("rename")
  /\ \/ exe # NoFile /\ SwapTo("move") /\ old' = exe /\ exe' = NoFile /\ UNCHANGED faults
     \/ /\ swapper' = NoHelper /\ UNCHANGED <<old, exe>>
        /\ Fault \/ (exe = NoFile /\ UNCHANGED faults)
  /\ UNCHANGED new /\ Agentless
\* A failing move puts the old file back, unless that fails as well.
MoveNew ==
  /\ SwapAt("move")
  /\ \/ SwapTo("clean") /\ exe' = new /\ new' = NoFile /\ UNCHANGED <<old, faults>>
     \/ /\ Fault /\ swapper' = NoHelper /\ UNCHANGED new
        /\ \/ exe' = old /\ old' = NoFile
           \/ UNCHANGED <<exe, old>>
  /\ Agentless
RemoveBackup ==
  /\ SwapAt("clean")
  /\ SwapTo("start")
  /\ old' = NoFile \/ UNCHANGED old
  /\ UNCHANGED <<faults, exe, new>> /\ Agentless

\* controlService("start"): refused while the service is not stopped.
Starts ==
  \/ /\ service = "stopped" /\ exe # NoFile
     /\ service' = "running" /\ agent' = exe /\ UNCHANGED faults
  \/ /\ service # "stopped" \/ exe = NoFile
     /\ UNCHANGED <<service, agent, faults>>
  \/ Fault /\ UNCHANGED <<service, agent>>
StartSwapped ==
  /\ SwapAt("start")
  /\ swapper' = NoHelper /\ Starts
  /\ UNCHANGED <<diskVars, update, restart, starter>> /\ Aside
\* RunRestartHelper.
StarterWait ==
  /\ starter.pc = "wait"
  /\ \/ ~starter.waits /\ starter' = [starter EXCEPT !.pc = "start"] /\ UNCHANGED faults
     \/ starter.waits /\ Fault /\ starter' = NoHelper
  /\ UNCHANGED <<diskVars, service, agent, update, restart, swapper>> /\ Aside
StartAgain ==
  /\ starter.pc = "start"
  /\ starter' = NoHelper /\ Starts
  /\ UNCHANGED <<diskVars, update, restart, swapper>> /\ Aside
-----------------------------------------------------------------------------
\* The machine loses power; at boot the service manager starts what is there.
PowerCut ==
  /\ service # "off" /\ Fault
  /\ service' = "off" /\ agent' = NoFile
  /\ update' = NoUpdate /\ restart' = "idle"
  /\ swapper' = NoHelper /\ starter' = NoHelper
  /\ UNCHANGED diskVars /\ Aside
\* Mutant: a service whose file is gone counts as started.
Boot_Blind ==
  /\ service = "off"
  /\ agent' = exe /\ service' = "running"
  /\ UNCHANGED <<faults, diskVars, update, restart, swapper, starter>> /\ Aside

Boot ==
  /\ service = "off"
  /\ agent' = exe
  /\ service' = IF exe = NoFile THEN "stopped" ELSE "running"
  /\ UNCHANGED <<faults, diskVars, update, restart, swapper, starter>> /\ Aside

UpdateStep ==
  \/ OpenDownload \/ Receive \/ Verify \/ SpawnSwapper \/ StopForUpdate
  \/ RenameInPlace \/ RestartUnit
SwapStep ==
  \/ SwapWait \/ RemoveLeftover \/ RenameOld \/ MoveNew \/ RemoveBackup \/ StartSwapped
RestartStep == SpawnStarter \/ StopForRestart \/ RestartOnCommand
StarterStep == StarterWait \/ StartAgain
UpdaterNext ==
  \/ PublishStep
  \/ Check("main") \/ Check("loop") \/ UpdateStep \/ SwapStep
  \/ RestartStep \/ StarterStep \/ Exit
  \/ PowerCut \/ Boot
UpdaterSpec == UpdaterInit /\ [][UpdaterNext]_updaterVars

\* The goroutines and the helpers run on, the tickers fire, a stop ends, and
\* somebody switches the machine on again.
UpdaterFairness ==
  /\ WF_updaterVars(Check("main")) /\ WF_updaterVars(UpdateStep)
  /\ WF_updaterVars(SwapStep) /\ WF_updaterVars(StarterStep)
  /\ WF_updaterVars(StopForRestart) /\ WF_updaterVars(Exit) /\ WF_updaterVars(Boot)
-----------------------------------------------------------------------------
UpdateType ==
  [by : {"none", "main", "loop"},
   pc : {"idle", "found", "fetch", "verify", "apply", "stop", "restart"},
   rel : Builds \cup {NoFile}, bytes : Builds \cup {NoFile}]
SwapperPoints == {"none", "wait", "remove", "rename", "move", "clean", "start"}
SwapperType == [pc : SwapperPoints, waits : BOOLEAN]
StarterType == [pc : {"none", "wait", "start"}, waits : BOOLEAN]

(* Type correctness.                                                        *)
UpdaterTypeOK ==
  /\ platform \in Platforms /\ autoUpdate \in BOOLEAN
  /\ {exe, new, old} \subseteq AllBuilds \cup {NoFile, Torn}
  /\ service \in {"running", "stopping", "stopped", "off"}
  /\ agent \in AllBuilds \cup {NoFile}
  /\ agent # NoFile <=> service \in {"running", "stopping"}
  /\ update \in UpdateType /\ restart \in {"idle", "stop"}
  /\ swapper \in SwapperType /\ starter \in StarterType
  /\ row \in [Versions -> Builds \cup {NoFile}]
  /\ stored \in [Versions -> Builds \cup {NoFile}]
  /\ publish \in [pc : {"idle", "write", "insert", "unlink"}, build : Builds \cup {NoFile}]
  /\ {faults, restarts, removals} \subseteq Nat

(* Whatever step fails and wherever power is lost, the service's path holds *)
(* a build that was published whole, or a file beside it does: "rather      *)
(* than leaving the install in a half-updated state" (RunHelper), and no    *)
(* download that did not match its checksum ever gets there (Download).     *)
AWholeBuildStays ==
  exe \in AllBuilds \/ (exe = NoFile /\ {old, new} \cap AllBuilds # {})

(* The file the next start will run is never older than the build that is   *)
(* running, though a helper may outlive the process that started it, and    *)
(* RESTARTs may bring the old build back in the middle of a swap (IsNewer,  *)
(* Apply, RestartService).  Unless a release was taken back: then an old    *)
(* build may fetch what is older than the file beside it.                   *)
OnDiskNotOlder ==
  agent # NoFile /\ exe # NoFile => exe.version >= agent.version

(* Whatever fails, a whole build is at hand, and not an older one.          *)
WholeBuildNotOlder == AWholeBuildStays /\ (removals = 0 => OnDiskNotOlder)

\* The newest release is an ordinary one and automatic updates are off: the
\* ticker's look passes it over.
PassedOver == \E b \in Latest : ~Wanted(b)

(* "Atualizando de v... - o agente reinicia sozinho" (checkForUpdate): an   *)
(* update that is applied ends with its version, or a newer one, running,   *)
(* unless a step failed, power was lost or a release was taken back.  A     *)
(* RESTART's helper may start the old build before the swap is done; then   *)
(* it is the ticker's next look that takes the update up again.  With       *)
(* automatic updates off it does so only while the newest release is a      *)
(* mandatory one: once it is an ordinary release the old build may keep     *)
(* running, the applied one beside it on disk, until the next restart.      *)
UpdateTakesEffect ==
  \A v \in Versions :
    (update.pc = "apply" /\ update.rel.version = v)
      ~> (agent.version >= v \/ PassedOver \/ faults > 0 \/ removals > 0)

(* "deliberately left running the old version if any step fails" (RunHelper *)
(* and, for the second rename, "restore so the service can still start on   *)
(* the old version"): with the machine on and no helper or stop under way,  *)
(* the service is not left stopped.                                         *)
LeftRunning ==
  swapper = NoHelper /\ starter = NoHelper => service # "stopped"
=============================================================================
