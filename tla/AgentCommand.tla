---------------------------- MODULE AgentCommand ----------------------------
(* Remote commands of one agent: the AgentToken's command columns           *)
(* (agent-command.service.ts, requestCommand of customers.service.ts) and   *)
(* the agent that polls, acts and acks (agent/internal/svc/service.go).     *)
(* An ack is one HTTP call, served by a read and a later write; the caller  *)
(* waits for its answer, gives up on a timeout and never repeats it.        *)
EXTENDS Integers, FiniteSets

CONSTANTS
  Sessions,     \* panel requests in flight at once
  Commands,     \* the commands the panel sends, of AllCommands
  Slots,        \* ack calls on their way or being served at once
  Expiry,       \* COMMAND_EXPIRY_MS, in ticks
  MaxTime,      \* bound on the clock
  MaxRequests,  \* bound on the requests written
  MaxLost,      \* bound on the failed acks of a request
  MaxReboots    \* bound on the stops nobody asked for

VARIABLES
  token,     \* the row: type, request number (at), its time, acked, result
  panel,     \* panel[s]: the command session s is about to write, or "none"
  nreq,      \* requests written; a request is known by its number
  acks,      \* acks[k]: an ack call, or Free
  loop,      \* controlLoop: the command it works on
  sweep,     \* the background discovery sweep and the request it reports to
  updating,  \* holder of the update lock
  runs,      \* runs[r]: times the agent carried out request r
  lost,      \* lost[r]: acks of r the agent saw fail
  reboots, now

serverVars == <<token, panel, nreq>>
agentVars == <<loop, sweep, updating>>
history == <<runs, lost, reboots>>
commandVars == <<serverVars, acks, agentVars, history, now>>

AllCommands == {"RESTART", "UPDATE", "DISCOVER"}
Requests == 1 .. MaxRequests
Kinds == {"none", "started", "busy", "outcome"}
Call == [owner : {"free", "loop", "sweep", "gone"}, of : Requests \cup {0}, kind : Kinds,
         pc : {"free", "sent", "read"}]
NoResult == [of |-> 0, kind |-> "none"]
Free == [owner |-> "free", of |-> 0, kind |-> "none", pc |-> "free"]
IdleLoop == [cmd |-> "none", at |-> 0, pc |-> "idle"]
NoSweep == [pc |-> "off", for |-> 0]

ASSUME CommandAssumption ==
  /\ Commands \subseteq AllCommands
  /\ {Expiry, MaxTime, MaxRequests, MaxLost, MaxReboots} \subseteq Nat

Init ==
  /\ token = [type |-> "none", at |-> 0, time |-> 0, acked |-> FALSE, result |-> NoResult]
  /\ panel = [s \in Sessions |-> "none"]
  /\ nreq = 0
  /\ acks = [k \in Slots |-> Free]
  /\ loop = IdleLoop /\ sweep = NoSweep /\ updating = "free"
  /\ runs = [r \in Requests |-> 0] /\ lost = [r \in Requests |-> 0]
  /\ reboots = 0 /\ now = 0

\* pendingFor, and the guard of requestCommand.
Pending == token.at # 0 /\ ~token.acked /\ now - token.time <= Expiry
-----------------------------------------------------------------------------
\* requestCommand: "another command is still waiting for the agent" refuses;
\* the row is written by a later query.
RequestCommand(s) ==
  /\ panel[s] = "none" /\ ~Pending
  /\ \E c \in Commands : panel' = [panel EXCEPT ![s] = c]
  /\ UNCHANGED <<token, nreq, acks, agentVars, history, now>>
WriteCommand(s) ==
  /\ panel[s] # "none" /\ nreq < MaxRequests
  /\ token' = [type |-> panel[s], at |-> nreq + 1, time |-> now, acked |-> FALSE,
               result |-> NoResult]
  /\ nreq' = nreq + 1
  /\ panel' = [panel EXCEPT ![s] = "none"]
  /\ UNCHANGED <<acks, agentVars, history, now>>
-----------------------------------------------------------------------------
Waiting(owner) == \E k \in Slots : acks[k].owner = owner
Send(who, r, what) ==
  \E k \in Slots :
    /\ acks[k] = Free
    /\ acks' = [acks EXCEPT ![k] = [owner |-> who, of |-> r, kind |-> what, pc |-> "sent"]]

\* ack: findFirst on commandRequestedAt; a request that was replaced is let go.
AckRead(k) ==
  /\ acks[k].pc = "sent"
  /\ acks' = [acks EXCEPT ![k] = IF acks[k].of = token.at
                                 THEN [acks[k] EXCEPT !.pc = "read"] ELSE Free]
  /\ UNCHANGED <<serverVars, agentVars, history, now>>
\* ack: update by the token's id alone.
AckWrite(k) ==
  /\ acks[k].pc = "read"
  /\ token' = [token EXCEPT !.acked = TRUE,
                            !.result = [of |-> acks[k].of, kind |-> acks[k].kind]]
  /\ acks' = [acks EXCEPT ![k] = Free]
  /\ UNCHANGED <<panel, nreq, agentVars, history, now>>

\* The call fails on its way, or the API stops while serving it; or the agent
\* times out on a call the API still serves.  Either way it is only logged.
AckFails(k) ==
  /\ acks[k].owner \in {"loop", "sweep"}
  /\ lost[acks[k].of] < MaxLost
  /\ lost' = [lost EXCEPT ![acks[k].of] = lost[acks[k].of] + 1]
  /\ \/ acks' = [acks EXCEPT ![k] = Free]
     \/ acks' = [acks EXCEPT ![k] = [acks[k] EXCEPT !.owner = "gone"]]
  /\ UNCHANGED <<serverVars, agentVars, runs, reboots, now>>
-----------------------------------------------------------------------------
\* checkCommand: one command at a time; a failed poll is a poll not made.
Poll ==
  /\ loop.pc = "idle" /\ ~Waiting("loop") /\ Pending
  /\ loop' = [cmd |-> token.type, at |-> token.at, pc |-> "got"]
  /\ UNCHANGED <<serverVars, acks, sweep, updating, history, now>>

LoopAt(c, where) == loop.cmd = c /\ loop.pc = where /\ ~Waiting("loop")
Report(kind, next) ==
  /\ Send("loop", loop.at, kind)
  /\ loop' = next
Ran == runs' = [runs EXCEPT ![loop.at] = runs[loop.at] + 1]
\* The process ends and comes back: calls in flight may still be served.
Restarted ==
  /\ loop' = IdleLoop /\ sweep' = NoSweep /\ updating' = "free"
  /\ acks' = [k \in Slots |-> IF acks[k] = Free THEN Free
                              ELSE [acks[k] EXCEPT !.owner = "gone"]]

\* Mutant: RESTART acts first and acks afterwards.
FirstAck_RestartLast ==
  \/ /\ LoopAt("DISCOVER", "got")
     /\ Report("started", [loop EXCEPT !.pc = "act"])
     /\ UNCHANGED <<serverVars, sweep, updating, history, now>>
  \/ /\ LoopAt("RESTART", "got")
     /\ loop' = [loop EXCEPT !.pc = "act"]
     /\ UNCHANGED <<serverVars, acks, sweep, updating, history, now>>

\* DISCOVER and RESTART: ack first.
FirstAck ==
  /\ LoopAt("DISCOVER", "got") \/ LoopAt("RESTART", "got")
  /\ Report("started", [loop EXCEPT !.pc = "act"])
  /\ UNCHANGED <<serverVars, sweep, updating, history, now>>

\* RESTART: the service restarts, or a second ack says that it could not.
Restart ==
  /\ LoopAt("RESTART", "act")
  /\ \/ Ran /\ Restarted
     \/ Report("outcome", IdleLoop) /\ UNCHANGED <<sweep, updating, runs>>
  /\ UNCHANGED <<serverVars, lost, reboots, now>>

\* DISCOVER: startDiscovery, unless a sweep is already running.
StartSweep ==
  /\ LoopAt("DISCOVER", "act")
  /\ \/ /\ sweep = NoSweep
        /\ sweep' = [pc |-> "run", for |-> loop.at]
        /\ loop' = IdleLoop
        /\ Ran /\ UNCHANGED acks
     \/ /\ sweep # NoSweep
        /\ Report("busy", IdleLoop)
        /\ UNCHANGED <<sweep, runs>>
  /\ UNCHANGED <<serverVars, updating, lost, reboots, now>>
\* The day's own sweep reports to nobody.
DailySweep ==
  /\ sweep = NoSweep
  /\ sweep' = [pc |-> "run", for |-> 0]
  /\ UNCHANGED <<serverVars, acks, loop, updating, history, now>>

\* Mutant: the sweep ends without its onDone.
SweepDone_Silent ==
  /\ sweep.pc = "run"
  /\ sweep' = NoSweep
  /\ UNCHANGED <<serverVars, acks, loop, updating, history, now>>

\* onDone acks from the sweep's goroutine, which then lets the next one start.
SweepDone ==
  /\ sweep.pc = "run"
  /\ IF sweep.for = 0 THEN sweep' = NoSweep /\ UNCHANGED acks
     ELSE /\ sweep' = [sweep EXCEPT !.pc = "report"]
          /\ Send("sweep", sweep.for, "outcome")
  /\ UNCHANGED <<serverVars, loop, updating, history, now>>
SweepEnds ==
  /\ sweep.pc = "report" /\ ~Waiting("sweep")
  /\ sweep' = NoSweep
  /\ UNCHANGED <<serverVars, acks, loop, updating, history, now>>

\* UPDATE: checkForUpdate with force; TryLock keeps it from the scheduled check.
CheckUpdate ==
  /\ LoopAt("UPDATE", "got")
  /\ \/ /\ updating = "free" /\ updating' = "loop"
        /\ loop' = [loop EXCEPT !.pc = "check"] /\ UNCHANGED acks
     \/ /\ updating # "free" /\ UNCHANGED updating
        /\ Report("busy", IdleLoop)
  /\ UNCHANGED <<serverVars, sweep, history, now>>
\* No newer release or a bad download; or beforeApply acks and Apply follows.
FetchUpdate ==
  /\ LoopAt("UPDATE", "check")
  /\ \/ updating' = "free" /\ Report("outcome", IdleLoop)
     \/ UNCHANGED updating /\ Report("started", [loop EXCEPT !.pc = "act"])
  /\ UNCHANGED <<serverVars, sweep, history, now>>
ApplyUpdate ==
  /\ LoopAt("UPDATE", "act")
  /\ \/ Ran /\ Restarted
     \/ /\ updating' = "free" /\ Report("outcome", IdleLoop)
        /\ UNCHANGED <<sweep, runs>>
  /\ UNCHANGED <<serverVars, lost, reboots, now>>
\* The scheduled check of run's own goroutine; applying it is a Reboot.
ScheduledCheck ==
  /\ \/ updating = "free" /\ updating' = "main"
     \/ updating = "main" /\ updating' = "free"
  /\ UNCHANGED <<serverVars, acks, loop, sweep, history, now>>

\* The machine is switched off, or a scheduled update is applied.
Reboot ==
  /\ reboots < MaxReboots
  /\ reboots' = reboots + 1
  /\ Restarted
  /\ UNCHANGED <<serverVars, runs, lost, now>>
Tick ==
  /\ now < MaxTime
  /\ now' = now + 1
  /\ UNCHANGED <<serverVars, acks, agentVars, history>>
-----------------------------------------------------------------------------
PanelStep == \E s \in Sessions : RequestCommand(s) \/ WriteCommand(s)
ServeAck == \E k \in Slots : AckRead(k) \/ AckWrite(k)
LoopStep ==
  \/ Poll \/ FirstAck \/ Restart \/ StartSweep
  \/ CheckUpdate \/ FetchUpdate \/ ApplyUpdate
SweepStep == SweepDone \/ SweepEnds

CommandNext ==
  \/ PanelStep \/ ServeAck \/ LoopStep \/ SweepStep
  \/ DailySweep \/ ScheduledCheck
  \/ (\E k \in Slots : AckFails(k))
  \/ Reboot \/ Tick

CommandSpec == Init /\ [][CommandNext]_commandVars

\* The API answers, the 2-minute ticker fires, a sweep and a check end.
Fairness ==
  /\ \A k \in Slots : WF_commandVars(AckRead(k) \/ AckWrite(k))
  /\ WF_commandVars(LoopStep) /\ WF_commandVars(SweepStep)
FairSpec == CommandSpec /\ Fairness
-----------------------------------------------------------------------------
(* Type correctness: the row, the calls and the agent keep their shape.     *)
CommandTypeOK ==
  /\ nreq \in 0 .. MaxRequests /\ now \in Nat /\ reboots \in Nat
  /\ token \in [type : AllCommands \cup {"none"}, at : 0 .. nreq, time : Nat,
                acked : BOOLEAN, result : [of : Requests \cup {0}, kind : Kinds]]
  /\ panel \in [Sessions -> AllCommands \cup {"none"}]
  /\ acks \in [Slots -> Call]
  /\ \A k \in Slots : acks[k] # Free => acks[k].owner # "free" /\ acks[k].of \in 1 .. nreq
  /\ loop \in [cmd : AllCommands \cup {"none"}, at : 0 .. nreq,
               pc : {"idle", "got", "check", "act"}]
  /\ loop.pc # "idle" => loop.at # 0
  /\ sweep \in [pc : {"off", "run", "report"}, for : 0 .. nreq]
  /\ updating \in {"free", "loop", "main"}
  /\ runs \in [Requests -> Nat] /\ lost \in [Requests -> Nat]

(* "RESTART and UPDATE ack BEFORE acting" (checkCommand), so that the next  *)
(* process is not handed the command again: a request is carried out more   *)
(* than once only as often as an ack of it failed.                          *)
RepeatedOnlyAfterLostAck == \A r \in Requests : runs[r] <= 1 + lost[r]

(* "Buscando impressoras..." does not stay on the panel: with no call lost  *)
(* and no power cut a sweep's outcome replaces it (checkCommand's DISCOVER).*)
SearchEnds ==
  \A r \in Requests :
    (token.type = "DISCOVER" /\ token.at = r /\ token.result = [of |-> r, kind |-> "started"])
      ~> (token.at # r \/ token.result.kind # "started")
=============================================================================
