---------------------------- MODULE AgentProofs ----------------------------
(* An installed agent, for any numbers of commands, printers, days, lost    *)
(* calls and ends of the process: an acknowledgement clears only what it    *)
(* answers, a printer a person was told of is kept, a sweep goes only where *)
(* something pointed it to, and no log is pruned early.                     *)
EXTENDS MCAgent, FiniteSetTheorems, SequenceTheorems, WellFoundedInduction, TLAPS

\* The calls' part of the type invariant.
CallsOK ==
  /\ acks \in [Slots -> Call]
  /\ \A k \in Slots : acks[k] # Free => acks[k].owner # "free" /\ acks[k].of \in 1 .. nreq
AgentOK ==
  /\ loop \in [cmd : AllCommands \cup {"none"}, at : 0 .. nreq,
               pc : {"idle", "got", "check", "act"}]
  /\ loop.pc # "idle" => loop.at # 0
  /\ sweep \in [pc : {"off", "run", "report"}, for : 0 .. nreq]
  /\ updating \in {"free", "loop", "main"}

(* Numbers are numbers: the bounds, and a request's number.                 *)
LEMMA Bounds ==
  ASSUME CommandTypeOK
  PROVE  /\ MaxRequests \in Nat /\ nreq \in Nat /\ nreq <= MaxRequests
         /\ 1 .. nreq \subseteq Requests
BY CommandAssumption DEF CommandTypeOK, Requests

(* One slot is rewritten: the calls keep their shape.                       *)
LEMMA SlotType ==
  ASSUME CommandTypeOK, NEW k \in Slots, NEW call \in Call,
         call # Free => call.owner # "free" /\ call.of \in 1 .. nreq,
         acks' = [acks EXCEPT ![k] = call], UNCHANGED nreq
  PROVE  CallsOK'
BY DEF CommandTypeOK, CallsOK

(* A call put on its way keeps the calls' shape.                            *)
LEMMA SendType ==
  ASSUME CommandTypeOK, NEW r \in 1 .. nreq, NEW kind \in Kinds,
         NEW who \in {"loop", "sweep"}, Send(who, r, kind), UNCHANGED nreq
  PROVE  CallsOK'
<1> DEFINE call == [owner |-> who, of |-> r, kind |-> kind, pc |-> "sent"]
<1>1. PICK k \in Slots : acks' = [acks EXCEPT ![k] = call]
  BY DEF Send
<1>2. call \in Call /\ call.owner # "free" /\ call.of \in 1 .. nreq
  BY Bounds DEF Call
<1> HIDE DEF call
<1> QED BY <1>1, <1>2, SlotType

(* A restart keeps it too: only the owners of the calls change.             *)
LEMMA RestartType ==
  ASSUME CommandTypeOK, Restarted, UNCHANGED nreq
  PROVE  CallsOK' /\ AgentOK'
<1> DEFINE after(k) == IF acks[k] = Free THEN Free ELSE [acks[k] EXCEPT !.owner = "gone"]
<1>1. ASSUME NEW k \in Slots
      PROVE  /\ after(k) \in Call
             /\ after(k) # Free => after(k).owner # "free" /\ after(k).of \in 1 .. nreq
  <2>1. acks[k] \in Call /\ (acks[k] # Free => acks[k].owner # "free" /\ acks[k].of \in 1 .. nreq)
    BY DEF CommandTypeOK
  <2>2. CASE acks[k] = Free
    BY <2>1, <2>2 DEF Free
  <2>3. CASE acks[k] # Free
    BY <2>1, <2>3 DEF Call, Free, CommandTypeOK
  <2> QED BY <2>2, <2>3
<1>2. acks' = [k \in Slots |-> after(k)]
  BY DEF Restarted
<1>3. CallsOK'
  <2> HIDE DEF after
  <2> QED BY <1>1, <1>2 DEF CallsOK
<1>4. AgentOK'
  BY Bounds DEF Restarted, AgentOK, IdleLoop, NoSweep, AllCommands
<1> QED BY <1>3, <1>4

(* Every step keeps the types.                                              *)
LEMMA ServerType ==
  ASSUME CommandTypeOK,
         \/ PanelStep \/ ServeAck \/ Tick
         \/ \E k \in Slots : AckFails(k)
  PROVE  CommandTypeOK'
<1>1. ASSUME NEW s \in Sessions, RequestCommand(s) PROVE CommandTypeOK'
  <2>1. PICK c \in Commands : panel' = [panel EXCEPT ![s] = c]
    BY <1>1 DEF RequestCommand
  <2> QED BY <1>1, <2>1, CommandAssumption
      DEF RequestCommand, CommandTypeOK, agentVars, history
<1>2. ASSUME NEW s \in Sessions, WriteCommand(s) PROVE CommandTypeOK'
  <2>1. /\ panel' = [panel EXCEPT ![s] = "none"] /\ nreq' = nreq + 1
        /\ nreq' \in 0 .. MaxRequests /\ 0 .. nreq \subseteq 0 .. nreq'
        /\ 1 .. nreq \subseteq 1 .. nreq'
    BY <1>2, Bounds DEF WriteCommand
  <2>2. token' \in [type : AllCommands \cup {"none"}, at : 0 .. nreq', time : Nat,
                   acked : BOOLEAN, result : [of : Requests \cup {0}, kind : Kinds]]
    BY <1>2, <2>1, Bounds DEF WriteCommand, CommandTypeOK, NoResult, Kinds
  <2>3. AgentOK'
    BY <1>2, <2>1 DEF WriteCommand, CommandTypeOK, AgentOK, agentVars
  <2>4. CallsOK'
    BY <1>2, <2>1 DEF WriteCommand, CommandTypeOK, CallsOK
  <2> QED BY <1>2, <2>1, <2>2, <2>3, <2>4
      DEF WriteCommand, CommandTypeOK, AgentOK, CallsOK, history
<1>3. ASSUME NEW k \in Slots, AckRead(k) PROVE CommandTypeOK'
  <2> DEFINE call == IF acks[k].of = token.at THEN [acks[k] EXCEPT !.pc = "read"] ELSE Free
  <2>1. acks[k] \in Call /\ acks[k] # Free
    BY <1>3 DEF AckRead, CommandTypeOK, Free
  <2>2. call \in Call /\ (call # Free => call.owner # "free" /\ call.of \in 1 .. nreq)
    BY <2>1 DEF CommandTypeOK, Call, Free, Kinds
  <2>3. acks' = [acks EXCEPT ![k] = call] /\ UNCHANGED nreq
    BY <1>3 DEF AckRead, serverVars
  <2> HIDE DEF call
  <2>4. CallsOK'
    BY <2>2, <2>3, SlotType
  <2> QED BY <1>3, <2>4 DEF AckRead, CommandTypeOK, CallsOK, serverVars, agentVars, history
<1>4. ASSUME NEW k \in Slots, AckWrite(k) PROVE CommandTypeOK'
  <2>1. acks[k] \in Call
    BY DEF CommandTypeOK
  <2>2. CallsOK'
    BY <1>4, SlotType DEF AckWrite, Free, Call, Kinds
  <2>3. token' \in [type : AllCommands \cup {"none"}, at : 0 .. nreq, time : Nat,
                   acked : BOOLEAN, result : [of : Requests \cup {0}, kind : Kinds]]
    BY <1>4, <2>1 DEF AckWrite, CommandTypeOK, Call
  <2> QED BY <1>4, <2>2, <2>3 DEF AckWrite, CommandTypeOK, CallsOK, agentVars, history
<1>5. ASSUME NEW k \in Slots, AckFails(k) PROVE CommandTypeOK'
  <2>1. acks[k] \in Call /\ acks[k] # Free /\ acks[k].of \in Requests
    BY <1>5, Bounds DEF AckFails, CommandTypeOK, Free
  <2>2. PICK call \in Call : /\ acks' = [acks EXCEPT ![k] = call]
                             /\ call # Free => call.owner # "free" /\ call.of \in 1 .. nreq
    <3>1. CASE acks' = [acks EXCEPT ![k] = Free]
      BY <3>1 DEF Free, Call, Kinds
    <3>2. CASE acks' = [acks EXCEPT ![k] = [acks[k] EXCEPT !.owner = "gone"]]
      <4>1. /\ [acks[k] EXCEPT !.owner = "gone"] \in Call
            /\ [acks[k] EXCEPT !.owner = "gone"].owner = "gone"
            /\ [acks[k] EXCEPT !.owner = "gone"].of \in 1 .. nreq
        BY <2>1 DEF Call, CommandTypeOK
      <4> QED BY <3>2, <4>1
    <3> QED BY <1>5, <3>1, <3>2 DEF AckFails
  <2>3. CallsOK'
    BY <1>5, <2>2, SlotType DEF AckFails, serverVars
  <2>4. lost' \in [Requests -> Nat]
    BY <1>5, <2>1 DEF AckFails, CommandTypeOK
  <2> QED BY <1>5, <2>3, <2>4 DEF AckFails, CommandTypeOK, CallsOK, serverVars, agentVars
<1>6. ASSUME Tick PROVE CommandTypeOK'
  BY <1>6 DEF Tick, CommandTypeOK, serverVars, agentVars, history
<1> QED BY <1>1, <1>2, <1>3, <1>4, <1>5, <1>6 DEF PanelStep, ServeAck

LEMMA AgentType ==
  ASSUME CommandTypeOK, LoopStep \/ SweepStep \/ DailySweep \/ ScheduledCheck \/ Reboot
  PROVE  CommandTypeOK'
<1>1. ASSUME Poll PROVE CommandTypeOK'
  BY <1>1 DEF Poll, Pending, CommandTypeOK, serverVars, history
<1> DEFINE Rest == UNCHANGED <<serverVars, now>> /\ runs' \in [Requests -> Nat]
                   /\ reboots' \in Nat /\ UNCHANGED lost
<1>2. ASSUME Rest, CallsOK', AgentOK' PROVE CommandTypeOK'
  BY <1>2 DEF CommandTypeOK, CallsOK, AgentOK, serverVars
<1>3. ASSUME loop.pc # "idle", NEW kind \in Kinds, NEW next, Report(kind, next),
             UNCHANGED nreq
      PROVE  CallsOK' /\ loop' = next
  BY <1>3, SendType DEF Report, CommandTypeOK
<1>4. ASSUME loop.pc # "idle", Ran PROVE runs' \in [Requests -> Nat]
  BY <1>4, Bounds DEF Ran, CommandTypeOK
<1>5. UNCHANGED acks /\ UNCHANGED nreq => CallsOK'
  BY DEF CommandTypeOK, CallsOK
<1>6. /\ {"started", "busy", "outcome"} \subseteq Kinds
      /\ IdleLoop \in [cmd : AllCommands \cup {"none"}, at : 0 .. nreq,
                       pc : {"idle", "got", "check", "act"}]
      /\ NoSweep \in [pc : {"off", "run", "report"}, for : 0 .. nreq]
      /\ IdleLoop.pc = "idle"
  BY Bounds DEF Kinds, IdleLoop, NoSweep
<1>7. ASSUME FirstAck PROVE CommandTypeOK'
  <2>1. CallsOK' /\ loop' = [loop EXCEPT !.pc = "act"] /\ loop.pc # "idle"
    BY <1>3, <1>6, <1>7 DEF FirstAck, LoopAt, serverVars
  <2>2. AgentOK' /\ Rest
    BY <1>7, <2>1 DEF FirstAck, AgentOK, CommandTypeOK, serverVars, history
  <2> QED BY <1>2, <2>1, <2>2
<1>8. ASSUME Restart PROVE CommandTypeOK'
  <2>1. loop.pc # "idle" /\ UNCHANGED <<serverVars, lost, reboots, now>> /\ UNCHANGED nreq
    BY <1>8 DEF Restart, LoopAt, serverVars
  <2>2. CASE Ran /\ Restarted
    BY <1>2, <1>4, <2>1, <2>2, RestartType DEF CommandTypeOK
  <2>3. CASE Report("outcome", IdleLoop) /\ UNCHANGED <<sweep, updating, runs>>
    <3>1. CallsOK' /\ AgentOK' /\ Rest
      BY <1>3, <1>6, <2>1, <2>3 DEF AgentOK, CommandTypeOK, serverVars
    <3> QED BY <1>2, <3>1
  <2> QED BY <1>8, <2>2, <2>3 DEF Restart
<1>9. ASSUME StartSweep PROVE CommandTypeOK'
  <2>1. /\ loop.pc # "idle" /\ UNCHANGED <<serverVars, updating, lost, reboots, now>>
        /\ UNCHANGED nreq
    BY <1>9 DEF StartSweep, LoopAt, serverVars
  <2>2. CASE sweep' = [pc |-> "run", for |-> loop.at] /\ loop' = IdleLoop /\ Ran /\ UNCHANGED acks
    <3>1. CallsOK' /\ AgentOK' /\ Rest
      BY <1>4, <1>5, <1>6, <2>1, <2>2 DEF AgentOK, CommandTypeOK, serverVars
    <3> QED BY <1>2, <3>1
  <2>3. CASE Report("busy", IdleLoop) /\ UNCHANGED <<sweep, runs>>
    <3>1. CallsOK' /\ AgentOK' /\ Rest
      BY <1>3, <1>6, <2>1, <2>3 DEF AgentOK, CommandTypeOK, serverVars
    <3> QED BY <1>2, <3>1
  <2> QED BY <1>9, <2>2, <2>3 DEF StartSweep
<1>10. ASSUME CheckUpdate PROVE CommandTypeOK'
  <2>1. loop.pc # "idle" /\ UNCHANGED <<serverVars, sweep, history, now>> /\ UNCHANGED nreq
    BY <1>10 DEF CheckUpdate, LoopAt, serverVars
  <2>2. CASE updating' = "loop" /\ loop' = [loop EXCEPT !.pc = "check"] /\ UNCHANGED acks
    <3>1. CallsOK' /\ AgentOK' /\ Rest
      BY <1>5, <2>1, <2>2 DEF AgentOK, CommandTypeOK, serverVars, history
    <3> QED BY <1>2, <3>1
  <2>3. CASE UNCHANGED updating /\ Report("busy", IdleLoop)
    <3>1. CallsOK' /\ AgentOK' /\ Rest
      BY <1>3, <1>6, <2>1, <2>3 DEF AgentOK, CommandTypeOK, serverVars, history
    <3> QED BY <1>2, <3>1
  <2> QED BY <1>10, <2>2, <2>3 DEF CheckUpdate
<1>11. ASSUME FetchUpdate PROVE CommandTypeOK'
  <2>1. loop.pc # "idle" /\ UNCHANGED <<serverVars, sweep, history, now>> /\ UNCHANGED nreq
    BY <1>11 DEF FetchUpdate, LoopAt, serverVars
  <2>2. CASE updating' = "free" /\ Report("outcome", IdleLoop)
    <3>1. CallsOK' /\ AgentOK' /\ Rest
      BY <1>3, <1>6, <2>1, <2>2 DEF AgentOK, CommandTypeOK, serverVars, history
    <3> QED BY <1>2, <3>1
  <2>3. CASE UNCHANGED updating /\ Report("started", [loop EXCEPT !.pc = "act"])
    <3>1. CallsOK' /\ loop' = [loop EXCEPT !.pc = "act"]
      BY <1>3, <1>6, <2>1, <2>3
    <3>2. AgentOK' /\ Rest
      BY <2>1, <2>3, <3>1 DEF AgentOK, CommandTypeOK, serverVars, history
    <3> QED BY <1>2, <3>1, <3>2
  <2> QED BY <1>11, <2>2, <2>3 DEF FetchUpdate
<1>12. ASSUME ApplyUpdate PROVE CommandTypeOK'
  <2>1. loop.pc # "idle" /\ UNCHANGED <<serverVars, lost, reboots, now>> /\ UNCHANGED nreq
    BY <1>12 DEF ApplyUpdate, LoopAt, serverVars
  <2>2. CASE Ran /\ Restarted
    BY <1>2, <1>4, <2>1, <2>2, RestartType DEF CommandTypeOK
  <2>3. CASE updating' = "free" /\ Report("outcome", IdleLoop) /\ UNCHANGED <<sweep, runs>>
    <3>1. CallsOK' /\ AgentOK' /\ Rest
      BY <1>3, <1>6, <2>1, <2>3 DEF AgentOK, CommandTypeOK, serverVars
    <3> QED BY <1>2, <3>1
  <2> QED BY <1>12, <2>2, <2>3 DEF ApplyUpdate
<1>13. ASSUME SweepDone PROVE CommandTypeOK'
  <2>1. UNCHANGED <<serverVars, loop, updating, history, now>> /\ UNCHANGED nreq
    BY <1>13 DEF SweepDone, serverVars
  <2>2. CASE sweep' = NoSweep /\ UNCHANGED acks
    <3>1. CallsOK' /\ AgentOK' /\ Rest
      BY <1>5, <1>6, <2>1, <2>2 DEF AgentOK, CommandTypeOK, serverVars, history
    <3> QED BY <1>2, <3>1
  <2>3. CASE sweep.for # 0 /\ sweep' = [sweep EXCEPT !.pc = "report"]
             /\ Send("sweep", sweep.for, "outcome")
    <3>1. CallsOK'
      BY <1>6, <2>1, <2>3, SendType DEF CommandTypeOK
    <3>2. AgentOK' /\ Rest
      BY <2>1, <2>3 DEF AgentOK, CommandTypeOK, serverVars, history
    <3> QED BY <1>2, <3>1, <3>2
  <2> QED BY <1>13, <2>2, <2>3 DEF SweepDone
<1>14. ASSUME SweepEnds \/ DailySweep PROVE CommandTypeOK'
  BY <1>6, <1>14 DEF SweepEnds, DailySweep, CommandTypeOK, serverVars, history
<1>15. ASSUME ScheduledCheck PROVE CommandTypeOK'
  BY <1>15 DEF ScheduledCheck, CommandTypeOK, serverVars, history
<1>16. ASSUME Reboot PROVE CommandTypeOK'
  <2>1. CallsOK' /\ AgentOK' /\ Rest
    BY <1>16, RestartType DEF Reboot, CommandTypeOK, serverVars
  <2> QED BY <1>2, <2>1
<1> QED BY <1>1, <1>7, <1>8, <1>9, <1>10, <1>11, <1>12, <1>13, <1>14, <1>15, <1>16
    DEF LoopStep, SweepStep

LEMMA CommandInitType == Init => CommandTypeOK
BY CommandAssumption DEF Init, CommandTypeOK, IdleLoop, NoSweep, NoResult, Free, Call, Kinds, Requests

LEMMA CommandStepType == CommandTypeOK /\ [CommandNext]_commandVars => CommandTypeOK'
<1>1. CASE UNCHANGED commandVars
  BY <1>1 DEF commandVars, serverVars, agentVars, history, CommandTypeOK
<1> QED BY <1>1, ServerType, AgentType DEF CommandNext

(* Type correctness.                                                        *)
THEOREM CommandsTyped == CommandSpec => []CommandTypeOK
BY CommandInitType, CommandStepType, PTL DEF CommandSpec
-----------------------------------------------------------------------------
(* The invariant behind RepeatedOnlyAfterLostAck.  A request is retired once*)
(* the row no longer offers it; until then every time it was carried out is *)
(* paid for by a failed ack, and so is the time the agent is about to.      *)
Retired(r) == r # token.at \/ token.acked
Credit(r) == IF Retired(r) THEN 1 ELSE 0
ReadyToAct == loop.pc = "act" /\ ~Waiting("loop")
RunsCovered == \A r \in Requests : runs[r] <= lost[r] + Credit(r)
LoopCovered ==
  loop.pc # "idle" =>
    IF ReadyToAct THEN runs[loop.at] + 1 <= lost[loop.at] + Credit(loop.at)
    ELSE runs[loop.at] <= lost[loop.at]
OwnCalls ==
  loop.pc = "act" => \A k \in Slots : acks[k].owner = "loop" => acks[k].of = loop.at
FreshRequests == \A r \in Requests : r > nreq => runs[r] = 0
CountInv == CommandTypeOK /\ RunsCovered /\ LoopCovered /\ OwnCalls /\ FreshRequests

LEMMA CountInts ==
  ASSUME CountInv
  PROVE  /\ runs \in [Requests -> Nat] /\ lost \in [Requests -> Nat] /\ nreq \in Nat
         /\ loop.pc # "idle" => loop.at \in Requests /\ loop.at <= nreq
         /\ \A r \in Requests : r \in Nat /\ Credit(r) \in {0, 1}
BY Bounds DEF CountInv, CommandTypeOK, Credit, Requests

(* The panel, the clock, the sweep and a served call that is not done leave *)
(* what the loop waits for alone.                                           *)
LEMMA CountFrame ==
  ASSUME CountInv, UNCHANGED <<loop, runs>>,
         \A k \in Slots : /\ (acks'[k].owner = "loop") = (acks[k].owner = "loop")
                          /\ acks[k].owner = "loop" => acks'[k].of = acks[k].of,
         nreq' \in Nat, nreq' >= nreq,
         lost' \in [Requests -> Nat], \A r \in Requests : lost'[r] >= lost[r],
         \A r \in Requests : Retired(r) => Retired(r)' \/ (r > nreq /\ r # loop.at)
  PROVE  RunsCovered' /\ LoopCovered' /\ OwnCalls' /\ FreshRequests'
<1> USE DEF CountInv
<1>1. ReadyToAct' = ReadyToAct
  BY DEF ReadyToAct, Waiting
<1>2. /\ runs \in [Requests -> Nat] /\ lost \in [Requests -> Nat] /\ nreq \in Nat
      /\ loop.pc # "idle" => loop.at \in Requests /\ loop.at <= nreq
  BY CountInts
<1>3. \A r \in Requests : r \in Nat /\ Credit(r) \in {0, 1} /\ Credit(r)' \in {0, 1}
  BY CountInts DEF Credit
<1>4. \A r \in Requests : Credit(r) <= Credit(r)' \/ (r > nreq /\ r # loop.at)
  BY DEF Credit
<1>5. RunsCovered'
  BY <1>2, <1>3, <1>4 DEF RunsCovered, FreshRequests
<1>6. LoopCovered'
  BY <1>1, <1>2, <1>3, <1>4 DEF LoopCovered
<1>7. OwnCalls'
  BY DEF OwnCalls
<1>8. FreshRequests'
  BY <1>2, <1>3 DEF FreshRequests
<1> QED BY <1>5, <1>6, <1>7, <1>8

(* A call of the loop ends: the row is retired, or the agent saw it fail.   *)
LEMMA LoopCallEnds ==
  ASSUME CountInv, UNCHANGED <<loop, runs, nreq>>,
         NEW k \in Slots, acks[k].owner = "loop", NEW r \in Requests, acks[k].of = r,
         NEW call \in Call, call.owner # "loop", acks' = [acks EXCEPT ![k] = call],
         lost' \in [Requests -> Nat], \A q \in Requests : lost'[q] >= lost[q],
         \A q \in Requests : Retired(q) => Retired(q)',
         Retired(r)' \/ lost'[r] >= lost[r] + 1
  PROVE  RunsCovered' /\ LoopCovered' /\ OwnCalls' /\ FreshRequests'
<1> USE DEF CountInv
<1>1. /\ runs \in [Requests -> Nat] /\ lost \in [Requests -> Nat] /\ nreq \in Nat
      /\ loop.pc # "idle" => loop.at \in Requests /\ loop.at <= nreq
      /\ Waiting("loop")
  BY CountInts DEF Waiting
<1>2. \A q \in Requests : /\ q \in Nat /\ Credit(q) \in {0, 1} /\ Credit(q)' \in {0, 1}
                          /\ Credit(q) <= Credit(q)'
  BY CountInts DEF Credit
<1>3. RunsCovered'
  BY <1>1, <1>2 DEF RunsCovered
<1>4. LoopCovered'
  <2>1. loop.pc # "idle" => runs[loop.at] <= lost[loop.at]
    BY <1>1 DEF LoopCovered, ReadyToAct
  <2>2. loop.pc = "act" => Credit(loop.at)' = 1 \/ lost'[loop.at] >= lost[loop.at] + 1
    <3>1. loop.pc = "act" => loop.at = r
      BY DEF OwnCalls
    <3>2. Retired(r)' => Credit(r)' = 1
      BY DEF Credit
    <3> QED BY <3>1, <3>2 DEF Credit, Retired
  <2>3. ReadyToAct' => loop.pc = "act"
    BY DEF ReadyToAct
  <2> QED BY <1>1, <1>2, <2>1, <2>2, <2>3 DEF LoopCovered
<1>5. OwnCalls'
  BY DEF OwnCalls, CommandTypeOK
<1>6. FreshRequests'
  BY DEF FreshRequests
<1> QED BY <1>3, <1>4, <1>5, <1>6

(* The loop reports: whatever it does next, it waits for this call first.   *)
LEMMA LoopReports ==
  ASSUME CountInv, NEW kind, NEW next, Report(kind, next), ~Waiting("loop"),
         loop.pc \notin {"idle", "act"} \/ next.pc = "idle",
         next.pc # "idle" => next.at = loop.at,
         UNCHANGED <<token, nreq, runs, lost>>
  PROVE  RunsCovered' /\ LoopCovered' /\ OwnCalls' /\ FreshRequests'
<1> USE DEF CountInv
<1> DEFINE call == [owner |-> "loop", of |-> loop.at, kind |-> kind, pc |-> "sent"]
<1>1. PICK k \in Slots : acks' = [acks EXCEPT ![k] = call] /\ loop' = next
  BY DEF Report, Send
<1>2. acks'[k] = call /\ \A j \in Slots : j # k => acks'[j] = acks[j]
  BY <1>1 DEF CommandTypeOK
<1>3. ~ReadyToAct'
  BY <1>2 DEF ReadyToAct, Waiting
<1>4. RunsCovered' /\ FreshRequests'
  BY DEF RunsCovered, FreshRequests, Credit, Retired
<1>5. LoopCovered'
  <2>1. next.pc # "idle" => runs[loop.at] <= lost[loop.at]
    BY DEF LoopCovered, ReadyToAct
  <2> QED BY <1>1, <1>3, <2>1 DEF LoopCovered
<1>6. OwnCalls'
  <2> HIDE DEF call
  <2>1. call.of = loop.at
    BY DEF call
  <2> QED BY <1>1, <1>2, <2>1 DEF OwnCalls, Waiting
<1> QED BY <1>4, <1>5, <1>6

(* The agent carries a command out and goes back to idle or is restarted.   *)
LEMMA LoopRuns ==
  ASSUME CountInv, ReadyToAct, Ran, loop' = IdleLoop, UNCHANGED <<token, nreq, lost>>
  PROVE  RunsCovered' /\ LoopCovered' /\ OwnCalls' /\ FreshRequests'
<1> USE DEF CountInv
<1>1. /\ runs \in [Requests -> Nat] /\ lost \in [Requests -> Nat] /\ nreq \in Nat
      /\ loop.at \in Requests /\ loop.at <= nreq
      /\ runs[loop.at] + 1 <= lost[loop.at] + Credit(loop.at)
      /\ \A r \in Requests : r \in Nat
  BY CountInts DEF ReadyToAct, LoopCovered
<1>2. \A r \in Requests : Credit(r)' = Credit(r)
  BY DEF Credit, Retired
<1>3. \A r \in Requests : runs'[r] = IF r = loop.at THEN runs[r] + 1 ELSE runs[r]
  BY <1>1 DEF Ran
<1>4. RunsCovered'
  BY <1>1, <1>2, <1>3 DEF RunsCovered
<1>5. FreshRequests'
  BY <1>1, <1>3 DEF FreshRequests
<1>6. LoopCovered' /\ OwnCalls'
  BY DEF LoopCovered, OwnCalls, IdleLoop
<1> QED BY <1>4, <1>5, <1>6

LEMMA CountServerStep ==
  ASSUME CountInv,
         \/ PanelStep \/ ServeAck \/ Tick
         \/ \E k \in Slots : AckFails(k)
  PROVE  RunsCovered' /\ LoopCovered' /\ OwnCalls' /\ FreshRequests'
<1> USE DEF CountInv
<1>0. /\ runs \in [Requests -> Nat] /\ lost \in [Requests -> Nat] /\ nreq \in Nat
      /\ loop.pc # "idle" => loop.at \in Requests /\ loop.at <= nreq
      /\ \A r \in Requests : r \in Nat
  BY CountInts
<1>1. ASSUME NEW s \in Sessions, RequestCommand(s) \/ WriteCommand(s)
      PROVE  RunsCovered' /\ LoopCovered' /\ OwnCalls' /\ FreshRequests'
  <2>1. /\ UNCHANGED <<acks, loop, runs, lost>> /\ nreq' \in {nreq, nreq + 1}
        /\ token' = token \/ (token'.at = nreq + 1 /\ nreq' = nreq + 1)
    BY <1>1 DEF RequestCommand, WriteCommand, agentVars, history
  <2>2. \A r \in Requests : Retired(r) => Retired(r)' \/ (r > nreq /\ r # loop.at)
    <3>1. CASE token' = token
      BY <3>1 DEF Retired
    <3>2. CASE token'.at = nreq + 1
      <4>1. loop.at # nreq + 1
        BY <1>0 DEF CommandTypeOK
      <4> QED BY <1>0, <3>2, <4>1 DEF Retired
    <3> QED BY <2>1, <3>1, <3>2
  <2> QED BY <1>0, <2>1, <2>2, CountFrame
<1>2. ASSUME Tick PROVE RunsCovered' /\ LoopCovered' /\ OwnCalls' /\ FreshRequests'
  BY <1>0, <1>2, CountFrame DEF Tick, serverVars, agentVars, history, Retired
<1>3. ASSUME NEW k \in Slots, AckRead(k) \/ AckWrite(k) \/ AckFails(k)
      PROVE  RunsCovered' /\ LoopCovered' /\ OwnCalls' /\ FreshRequests'
  <2>1. /\ UNCHANGED <<loop, runs, nreq>> /\ acks[k] \in Call /\ acks[k].of \in Requests
        /\ \A r \in Requests : Retired(r) => Retired(r)'
        /\ lost' \in [Requests -> Nat] /\ \A r \in Requests : lost'[r] >= lost[r]
    <3>1. acks[k] \in Call /\ acks[k].of \in Requests
      BY <1>3, Bounds DEF AckRead, AckWrite, AckFails, CommandTypeOK, Free
    <3>2. CASE AckFails(k)
      BY <1>0, <3>1, <3>2 DEF AckFails, Retired, serverVars, agentVars
    <3>3. CASE AckRead(k) \/ AckWrite(k)
      <4>1. token' = token \/ (token'.at = token.at /\ token'.acked)
        BY <3>3 DEF AckRead, AckWrite, serverVars, CommandTypeOK
      <4>2. UNCHANGED <<loop, runs, nreq, lost>>
        BY <3>3 DEF AckRead, AckWrite, serverVars, agentVars, history
      <4>3. \A r \in Requests : Retired(r) => Retired(r)'
        BY <4>1 DEF Retired
      <4> QED BY <1>0, <3>1, <4>2, <4>3
    <3> QED BY <1>3, <3>1, <3>2, <3>3
  <2>2. PICK call \in Call :
          /\ acks' = [acks EXCEPT ![k] = call]
          /\ \/ call.owner = acks[k].owner /\ call.of = acks[k].of
             \/ /\ call.owner # "loop"
                /\ \/ token'.acked \/ acks[k].of # token'.at
                   \/ lost'[acks[k].of] >= lost[acks[k].of] + 1
    <3> DEFINE hasRead == [acks[k] EXCEPT !.pc = "read"]
               gone == [acks[k] EXCEPT !.owner = "gone"]
    <3>1. /\ hasRead \in Call /\ hasRead.owner = acks[k].owner /\ hasRead.of = acks[k].of
          /\ gone \in Call /\ gone.owner = "gone"
          /\ Free \in Call /\ Free.owner = "free"
      BY <2>1 DEF Call, Free, Kinds
    <3> HIDE DEF hasRead, gone
    <3>2. CASE AckRead(k)
      <4>1. /\ token' = token
            /\ acks' = [acks EXCEPT ![k] = IF acks[k].of = token.at THEN hasRead ELSE Free]
        BY <3>2 DEF AckRead, serverVars, hasRead
      <4> QED BY <3>1, <4>1
    <3>3. CASE AckWrite(k)
      <4>1. token'.acked
        BY <3>3 DEF AckWrite, CommandTypeOK
      <4> QED BY <3>1, <3>3, <4>1 DEF AckWrite
    <3>4. CASE AckFails(k)
      <4>1. lost'[acks[k].of] >= lost[acks[k].of] + 1
        BY <1>0, <2>1, <3>4 DEF AckFails
      <4>2. acks' = [acks EXCEPT ![k] = Free] \/ acks' = [acks EXCEPT ![k] = gone]
        BY <3>4 DEF AckFails, gone
      <4> QED BY <3>1, <4>1, <4>2
    <3> QED BY <1>3, <3>2, <3>3, <3>4
  <2>3. CASE (call.owner = "loop") = (acks[k].owner = "loop")
             /\ (call.owner = "loop" => call.of = acks[k].of)
    <3>1. \A j \in Slots : /\ (acks'[j].owner = "loop") = (acks[j].owner = "loop")
                           /\ acks[j].owner = "loop" => acks'[j].of = acks[j].of
      BY <2>2, <2>3 DEF CommandTypeOK
    <3> QED BY <1>0, <2>1, <3>1, CountFrame
  <2>4. CASE acks[k].owner = "loop" /\ call.owner # "loop"
    <3>1. PICK r \in Requests : acks[k].of = r
      BY <2>1
    <3>2. Retired(r)' \/ lost'[r] >= lost[r] + 1
      BY <2>2, <2>4, <3>1 DEF Retired
    <3> QED BY <2>1, <2>2, <2>4, <3>1, <3>2, LoopCallEnds
  <2> QED BY <2>2, <2>3, <2>4
<1> QED BY <1>1, <1>2, <1>3 DEF PanelStep, ServeAck

LEMMA CountAgentStep ==
  ASSUME CountInv, LoopStep \/ SweepStep \/ DailySweep \/ ScheduledCheck \/ Reboot
  PROVE  RunsCovered' /\ LoopCovered' /\ OwnCalls' /\ FreshRequests'
<1> USE DEF CountInv
<1> DEFINE Goal == RunsCovered /\ LoopCovered /\ OwnCalls /\ FreshRequests
<1>0. /\ runs \in [Requests -> Nat] /\ lost \in [Requests -> Nat] /\ nreq \in Nat
      /\ IdleLoop.pc = "idle"
  BY CountInts DEF IdleLoop
<1>1. ASSUME UNCHANGED <<token, nreq, runs, lost>>, loop'.pc \in {"idle", "got", "check"},
             loop'.pc # "idle" => runs[loop'.at] <= lost[loop'.at]
      PROVE  Goal'
  BY <1>1 DEF RunsCovered, LoopCovered, OwnCalls, FreshRequests, Credit, Retired, ReadyToAct
<1>2. ASSUME Poll PROVE Goal'
  <2>1. token.at \in Requests /\ ~Retired(token.at)
    BY <1>2, Bounds DEF Poll, Pending, Retired, CommandTypeOK
  <2>2. runs[token.at] <= lost[token.at]
    BY <1>0, <2>1 DEF RunsCovered, Credit
  <2> QED BY <1>1, <1>2, <2>2 DEF Poll, serverVars, history
<1>3. ASSUME FirstAck PROVE Goal'
  BY <1>3, LoopReports DEF FirstAck, LoopAt, serverVars, history, CommandTypeOK
<1>4. ASSUME Restart \/ ApplyUpdate PROVE Goal'
  <2>1. ReadyToAct /\ ~Waiting("loop") /\ UNCHANGED <<token, nreq, lost>>
    BY <1>4 DEF Restart, ApplyUpdate, LoopAt, ReadyToAct, serverVars
  <2>2. CASE Ran /\ Restarted
    BY <2>1, <2>2, LoopRuns DEF Restarted
  <2>3. CASE Report("outcome", IdleLoop) /\ UNCHANGED runs
    BY <1>0, <2>1, <2>3, LoopReports
  <2> QED BY <1>4, <2>2, <2>3 DEF Restart, ApplyUpdate
<1>5. ASSUME StartSweep PROVE Goal'
  <2>1. ReadyToAct /\ ~Waiting("loop") /\ UNCHANGED <<token, nreq, lost>>
    BY <1>5 DEF StartSweep, LoopAt, ReadyToAct, serverVars
  <2>2. CASE Ran /\ loop' = IdleLoop
    BY <2>1, <2>2, LoopRuns
  <2>3. CASE Report("busy", IdleLoop) /\ UNCHANGED runs
    BY <1>0, <2>1, <2>3, LoopReports
  <2> QED BY <1>5, <2>2, <2>3 DEF StartSweep
<1>6. ASSUME CheckUpdate PROVE Goal'
  <2>1. ~Waiting("loop") /\ loop.pc = "got" /\ UNCHANGED <<token, nreq, runs, lost>>
    BY <1>6 DEF CheckUpdate, LoopAt, serverVars, history
  <2>2. CASE loop' = [loop EXCEPT !.pc = "check"]
    <3>1. loop'.pc = "check" /\ loop'.at = loop.at
      BY <2>2 DEF CommandTypeOK
    <3>2. runs[loop.at] <= lost[loop.at]
      BY <2>1 DEF LoopCovered, ReadyToAct
    <3> QED BY <1>1, <2>1, <3>1, <3>2
  <2>3. CASE Report("busy", IdleLoop)
    BY <1>0, <2>1, <2>3, LoopReports
  <2> QED BY <1>6, <2>2, <2>3 DEF CheckUpdate
<1>7. ASSUME FetchUpdate PROVE Goal'
  <2>1. ~Waiting("loop") /\ loop.pc = "check" /\ UNCHANGED <<token, nreq, runs, lost>>
    BY <1>7 DEF FetchUpdate, LoopAt, serverVars, history
  <2>2. CASE Report("outcome", IdleLoop)
    BY <1>0, <2>1, <2>2, LoopReports
  <2>3. CASE Report("started", [loop EXCEPT !.pc = "act"])
    <3>1. [loop EXCEPT !.pc = "act"].at = loop.at
      BY DEF CommandTypeOK
    <3> QED BY <2>1, <2>3, <3>1, LoopReports
  <2> QED BY <1>7, <2>2, <2>3 DEF FetchUpdate
<1>8. ASSUME SweepStep \/ DailySweep \/ ScheduledCheck PROVE Goal'
  <2>1. /\ UNCHANGED <<token, nreq, loop, runs, lost>>
        /\ UNCHANGED acks \/ Send("sweep", sweep.for, "outcome")
    BY <1>8 DEF SweepStep, SweepDone, SweepEnds, DailySweep, ScheduledCheck, serverVars, history
  <2>2. \A k \in Slots : /\ (acks'[k].owner = "loop") = (acks[k].owner = "loop")
                         /\ acks[k].owner = "loop" => acks'[k].of = acks[k].of
    BY <2>1 DEF Send, Free, CommandTypeOK
  <2> QED BY <1>0, <2>1, <2>2, CountFrame, CountInts DEF Retired
<1>9. ASSUME Reboot PROVE Goal'
  BY <1>0, <1>1, <1>9 DEF Reboot, Restarted, serverVars
<1> QED BY <1>2, <1>3, <1>4, <1>5, <1>6, <1>7, <1>8, <1>9 DEF LoopStep

(* A command is carried out again only as often as an ack of it failed, for *)
(* any number of clicks, calls in flight, timeouts and restarts.            *)
THEOREM AckedBeforeRepeated == CommandSpec => []RepeatedOnlyAfterLostAck
<1>1. Init => CountInv
  <2>1. Init => CommandTypeOK
    BY CommandInitType
  <2>2. Init => RunsCovered /\ LoopCovered /\ OwnCalls /\ FreshRequests
    BY CommandAssumption DEF Init, RunsCovered, LoopCovered, OwnCalls, FreshRequests, IdleLoop,
       Credit, Retired
  <2> QED BY <2>1, <2>2 DEF CountInv
<1>2. CountInv /\ [CommandNext]_commandVars => CountInv'
  <2> SUFFICES ASSUME CountInv, [CommandNext]_commandVars PROVE CountInv'
    OBVIOUS
  <2>1. CASE UNCHANGED commandVars
    BY <2>1 DEF commandVars, serverVars, agentVars, history, CountInv, CommandTypeOK, RunsCovered,
       LoopCovered, OwnCalls, FreshRequests, ReadyToAct, Waiting, Credit, Retired
  <2>2. CASE CommandNext
    <3>1. CommandTypeOK'
      BY <2>2, ServerType, AgentType DEF CommandNext, CountInv
    <3>2. RunsCovered' /\ LoopCovered' /\ OwnCalls' /\ FreshRequests'
      BY <2>2, CountServerStep, CountAgentStep DEF CommandNext
    <3> QED BY <3>1, <3>2 DEF CountInv
  <2> QED BY <2>1, <2>2
<1>3. CountInv => RepeatedOnlyAfterLostAck
  <2> SUFFICES ASSUME CountInv, NEW r \in Requests PROVE runs[r] <= 1 + lost[r]
    BY DEF RepeatedOnlyAfterLostAck
  <2> QED BY CountInts DEF CountInv, RunsCovered
<1> QED BY <1>1, <1>2, <1>3, PTL DEF CommandSpec
-----------------------------------------------------------------------------
(* The poll loop and the sweep: what the list, the file and a sweep hold.   *)
Knowledge == [Printers -> AllLevels]
SweepType ==
  [pc : {"off", "probe", "save", "report", "hand"}, by : {"none", "loop", "command"},
   added : SUBSET Printers, found : Knowledge]

\* What merging keeps and what it adds.
LEMMA MergeKeeps ==
  ASSUME NEW known \in Knowledge, NEW saw \in Knowledge
  PROVE  /\ Merge(known, saw) \in Knowledge
         /\ \A p \in Printers : known[p] # Unknown => Merge(known, saw)[p] # Unknown
         /\ Added(known, saw) \subseteq Printers
         /\ \A p \in Added(known, saw) : saw[p] # Unknown /\ Merge(known, saw)[p] # Unknown
         /\ \A p \in Printers : saw[p] # Unknown => Merge(known, saw)[p] # Unknown
BY DEF Merge, Added, Learns, Knowledge, Unknown, BySNMP, AllLevels, NoSNMP

LEMMA KnowledgeTypes ==
  /\ Nothing \in Knowledge /\ FromConfig \in Knowledge
  /\ \A file : file \in Knowledge \/ file = TornFile => Readable(file) \in Knowledge /\ Loaded(file) \in Knowledge
  /\ \A added \in SUBSET Printers, saw \in Knowledge : Only(added, saw) \in Knowledge
<1>1. Nothing \in Knowledge /\ FromConfig \in Knowledge
  BY DEF Nothing, FromConfig, Knowledge, Unknown, BySNMP, AllLevels
<1>2. \A added \in SUBSET Printers, saw \in Knowledge : Only(added, saw) \in Knowledge
  BY DEF Only, Knowledge, Unknown, AllLevels
<1>3. ASSUME NEW file, file \in Knowledge \/ file = TornFile
      PROVE  Readable(file) \in Knowledge /\ Loaded(file) \in Knowledge
  <2>1. Readable(file) \in Knowledge
    BY <1>1, <1>3 DEF Readable
  <2> QED BY <1>1, <2>1, MergeKeeps DEF Loaded
<1> QED BY <1>1, <1>2, <1>3

LEMMA LoopInitType == AgentLoopInit => AgentLoopTypeOK
<1> SUFFICES ASSUME AgentLoopInit PROVE AgentLoopTypeOK
  OBVIOUS
<1>1. disk \in Knowledge /\ devices \in Knowledge
  BY KnowledgeTypes DEF AgentLoopInit
<1>2. search \in SweepType
  BY KnowledgeTypes DEF AgentLoopInit, NoSearch, SweepType
<1>3. poller \in [pc : {"start", "select", "cycle", "extra"}, polling : SUBSET Printers]
  BY DEF AgentLoopInit, AtStart
<1>4. unpolled \subseteq Listed /\ announced \subseteq Printers
  BY DEF AgentLoopInit
<1>5. part \in DayParts /\ swept \in BOOLEAN /\ handed \in {"empty", "zero", "some"}
  BY DEF AgentLoopInit
<1>6. kills \in Nat /\ fileFaults \in Nat
  BY DEF AgentLoopInit
<1> QED BY <1>1, <1>2, <1>3, <1>4, <1>5, <1>6 DEF AgentLoopTypeOK, Knowledge, SweepType

LEMMA LoopStepType == AgentLoopTypeOK /\ [AgentLoopNext]_agentLoopVars => AgentLoopTypeOK'
<1> SUFFICES ASSUME AgentLoopTypeOK, [AgentLoopNext]_agentLoopVars PROVE AgentLoopTypeOK'
  OBVIOUS
<1>0. /\ devices \in Knowledge /\ (disk \in Knowledge \/ disk = TornFile)
      /\ search \in SweepType /\ unpolled \subseteq Listed /\ Listed \subseteq Printers
  BY DEF AgentLoopTypeOK, Knowledge, SweepType, Listed
<1>a. \A who \in {"loop", "command"} : SearchOf(who) \in SweepType /\ NoSearch \in SweepType
  BY KnowledgeTypes DEF SearchOf, NoSearch, SweepType
<1>1. CASE StartUp
  <2>1. search' \in SweepType
    BY <1>0, <1>1, <1>a DEF StartUp
  <2> QED BY <1>0, <1>1, <2>1 DEF StartUp, Calm, AgentLoopTypeOK, SweepType, Knowledge, Listed
<1>2. CASE EndCycle
  <2>1. search' \in SweepType
    BY <1>0, <1>2, <1>a DEF EndCycle
  <2> QED BY <1>0, <1>2, <2>1 DEF EndCycle, Calm, AgentLoopTypeOK, SweepType, Knowledge, Listed
<1>3. CASE PollTick \/ TakeCount \/ EndExtraCycle
  BY <1>0, <1>3 DEF PollTick, TakeCount, EndExtraCycle, BeginCycle, Calm, AgentLoopTypeOK, Listed
<1>4. CASE Discover \/ DiscoveryTick
  <2>1. search' \in SweepType
    BY <1>4, <1>a DEF Discover, DiscoveryTick
  <2> QED BY <1>4, <2>1 DEF Discover, DiscoveryTick, Calm, AgentLoopTypeOK, SweepType, Knowledge, Listed
<1>5. CASE Probe
  <2>1. PICK saw \in [Printers -> Levels] :
          /\ devices' = Merge(devices, saw)
          /\ unpolled' = unpolled \cup Added(devices, saw)
          /\ search' = [search EXCEPT !.pc = IF Added(devices, saw) = {} THEN "report" ELSE "save",
                                     !.added = Added(devices, saw), !.found = saw]
    BY <1>5 DEF Probe
  <2>2. saw \in Knowledge
    BY AgentLoopAssumption DEF Knowledge
  <2>3. devices' \in Knowledge /\ unpolled' \subseteq Listed'
    BY <1>0, <2>1, <2>2, MergeKeeps DEF Listed
  <2>4. search' \in SweepType
    BY <1>0, <2>1, <2>2, MergeKeeps DEF SweepType
  <2> QED BY <1>5, <2>3, <2>4 DEF Probe, Calm, AgentLoopTypeOK, SweepType, Knowledge
<1>6. CASE Save
  <2>1. Persisted(disk) \in Knowledge /\ Persisted(TornFile) \in Knowledge
    BY <1>0, KnowledgeTypes, MergeKeeps DEF Persisted, SweepType
  <2>2. disk' \in Knowledge \/ disk' = TornFile
    BY <1>0, <1>6, <2>1 DEF Save
  <2>3. search' \in SweepType /\ fileFaults' \in Nat
    BY <1>0, <1>6 DEF Save, SweepType, FileFault, AgentLoopTypeOK
  <2> QED BY <1>6, <2>2, <2>3 DEF Save, AgentLoopTypeOK, SweepType, Knowledge, Listed
<1>7. CASE ReportSearch \/ HandOver
  <2>1. search' \in SweepType /\ announced' \subseteq Printers
    BY <1>0, <1>7, <1>a DEF ReportSearch, HandOver, SweepType, AgentLoopTypeOK
  <2> QED BY <1>7, <2>1 DEF ReportSearch, HandOver, Calm, AgentLoopTypeOK, SweepType, Knowledge, Listed
<1>8. CASE Kill
  <2>1. disk' \in Knowledge \/ disk' = TornFile
    BY <1>0, <1>8 DEF Kill
  <2>2. devices' \in Knowledge
    BY <1>8, <2>1, KnowledgeTypes DEF Kill
  <2>3. search' \in SweepType /\ fileFaults' \in Nat /\ kills' \in Nat /\ unpolled' = {}
    BY <1>8, <1>a DEF Kill, FileFault, AgentLoopTypeOK
  <2> QED BY <1>8, <2>1, <2>2, <2>3 DEF Kill, AgentLoopTypeOK, SweepType, Knowledge, AtStart
<1>9. CASE Later
  BY <1>9 DEF Later, AgentLoopTypeOK, DayParts, Listed
<1>10. CASE UNCHANGED agentLoopVars
  BY <1>10 DEF agentLoopVars, memoryVars, AgentLoopTypeOK, Listed
<1> QED
  BY <1>1, <1>2, <1>3, <1>4, <1>5, <1>6, <1>7, <1>8, <1>9, <1>10
  DEF AgentLoopNext, PollerStep, SearchStep

(* The list, the file, a sweep and what it handed over keep their shape.    *)
THEOREM LoopTyped == AgentLoopSpec => []AgentLoopTypeOK
BY LoopInitType, LoopStepType, PTL DEF AgentLoopSpec
-----------------------------------------------------------------------------
(* As long as the file is read and written, a printer that is listed when   *)
(* its sweep reports is in config.yaml or in the file already, so that a    *)
(* restart reads it again.                                                  *)
KeptFor(p) == devices[p] # Unknown /\ Loaded(disk)[p] # Unknown
FileKeeps ==
  fileFaults = 0 =>
    /\ disk \in Knowledge
    /\ \A p \in announced : KeptFor(p)
    /\ search.pc = "save" => \A p \in search.added : search.found[p] # Unknown /\ devices[p] # Unknown
    /\ search.pc \in {"report", "hand"} => \A p \in search.added : KeptFor(p)
    /\ search.pc = "probe" => search.added = {}

LEMMA LoadedKeeps ==
  ASSUME NEW file \in Knowledge, Nothing \in Knowledge
  PROVE  \A p \in Printers : Loaded(file)[p] # Unknown <=> (file[p] # Unknown \/ p \in Configured)
<1>1. Readable(file) = file
  <2>1. CASE file = TornFile
    <3>1. ASSUME NEW p \in Printers PROVE FALSE
      BY <2>1 DEF TornFile, Knowledge, AllLevels
    <3>2. Printers = {}
      BY <3>1
    <3> QED BY <2>1, <3>2 DEF TornFile, Readable, Nothing
  <2>2. CASE file # TornFile
    BY <2>2 DEF Readable
  <2> QED BY <2>1, <2>2
<1>2. ASSUME NEW p \in Printers
      PROVE  Loaded(file)[p] # Unknown <=> (file[p] # Unknown \/ p \in Configured)
  BY <1>1 DEF Loaded, Merge, FromConfig, Learns, Knowledge, Unknown, BySNMP, NoSNMP, AllLevels
<1> QED BY <1>2

LEMMA FileKeepsStep ==
  AgentLoopTypeOK /\ FileKeeps /\ [AgentLoopNext]_agentLoopVars => FileKeeps'
<1> SUFFICES ASSUME AgentLoopTypeOK, FileKeeps, [AgentLoopNext]_agentLoopVars, fileFaults' = 0
             PROVE  /\ disk' \in Knowledge
                    /\ \A p \in announced' : KeptFor(p)'
                    /\ search'.pc = "save" =>
                         \A p \in search'.added : search'.found[p] # Unknown /\ devices'[p] # Unknown
                    /\ search'.pc \in {"report", "hand"} => \A p \in search'.added : KeptFor(p)'
                    /\ search'.pc = "probe" => search'.added = {}
  BY DEF FileKeeps
<1>0. /\ devices \in Knowledge /\ search \in SweepType /\ announced \subseteq Printers
      /\ fileFaults \in Nat /\ \A who \in {"loop", "command"} : SearchOf(who).added = {} /\ SearchOf(who).pc = "probe"
      /\ NoSearch.pc = "off"
  BY DEF AgentLoopTypeOK, Knowledge, SweepType, SearchOf, NoSearch
<1>u. ~FileFault
  BY <1>0 DEF FileFault
<1>f. fileFaults = 0
  <2>1. StartUp \/ EndCycle \/ PollTick \/ TakeCount \/ Discover => UNCHANGED fileFaults
    BY DEF StartUp, EndCycle, PollTick, TakeCount, Discover, Calm
  <2>5. EndExtraCycle \/ DiscoveryTick => UNCHANGED fileFaults
    BY DEF EndExtraCycle, DiscoveryTick, Calm
  <2>2. Probe \/ ReportSearch \/ HandOver \/ Later => UNCHANGED fileFaults
    BY DEF Probe, ReportSearch, HandOver, Later, Calm
  <2>3. Save \/ Kill => UNCHANGED fileFaults
    BY <1>u DEF Save, Kill
  <2>4. UNCHANGED agentLoopVars => UNCHANGED fileFaults
    BY DEF agentLoopVars
  <2> QED BY <2>1, <2>2, <2>3, <2>4, <2>5 DEF AgentLoopNext, PollerStep, SearchStep
<1>k. /\ disk \in Knowledge
      /\ \A p \in announced : KeptFor(p)
      /\ search.pc = "save" => \A p \in search.added : search.found[p] # Unknown /\ devices[p] # Unknown
      /\ search.pc \in {"report", "hand"} => \A p \in search.added : KeptFor(p)
      /\ search.pc = "probe" => search.added = {}
  BY <1>f DEF FileKeeps
<1>1. CASE StartUp \/ EndCycle \/ Discover \/ DiscoveryTick
  <2>1. search' = search \/ search' = SearchOf("loop") \/ search' = SearchOf("command")
    BY <1>1 DEF StartUp, EndCycle, Discover, DiscoveryTick
  <2>2. UNCHANGED <<disk, devices, announced>>
    BY <1>1 DEF StartUp, EndCycle, Discover, DiscoveryTick
  <2> QED BY <1>0, <1>k, <2>1, <2>2 DEF KeptFor
<1>2. CASE PollTick \/ TakeCount \/ EndExtraCycle \/ Later \/ UNCHANGED agentLoopVars
  <2>1. UNCHANGED <<disk, devices, announced, search>>
    BY <1>2 DEF PollTick, TakeCount, EndExtraCycle, Later, agentLoopVars, memoryVars
  <2> QED BY <1>k, <2>1 DEF KeptFor
<1>3. CASE Probe
  <2>1. PICK saw \in [Printers -> Levels] :
          /\ devices' = Merge(devices, saw)
          /\ search' = [search EXCEPT !.pc = IF Added(devices, saw) = {} THEN "report" ELSE "save",
                                     !.added = Added(devices, saw), !.found = saw]
    BY <1>3 DEF Probe
  <2>2. saw \in Knowledge /\ UNCHANGED <<disk, announced>>
    BY <1>3, AgentLoopAssumption DEF Probe, Knowledge
  <2>3. \A p \in Printers : devices[p] # Unknown => devices'[p] # Unknown
    BY <1>0, <2>1, <2>2, MergeKeeps
  <2>4. \A p \in announced' : KeptFor(p)'
    BY <1>0, <1>k, <2>2, <2>3 DEF KeptFor
  <2>5. /\ search'.added = Added(devices, saw) /\ search'.found = saw
        /\ search'.pc = IF Added(devices, saw) = {} THEN "report" ELSE "save"
    BY <1>0, <2>1 DEF SweepType
  <2>6. \A p \in search'.added : search'.found[p] # Unknown /\ devices'[p] # Unknown
    BY <1>0, <2>1, <2>2, <2>5, MergeKeeps
  <2> QED BY <1>k, <2>2, <2>4, <2>5, <2>6
<1>4. CASE Save
  <2>1. disk' = Persisted(disk)
    BY <1>u, <1>4 DEF Save
  <2>2. Only(search.added, search.found) \in Knowledge /\ Readable(disk) \in Knowledge
    BY <1>0, <1>k, KnowledgeTypes DEF SweepType
  <2>3. /\ disk' \in Knowledge
        /\ \A p \in Printers : Readable(disk)[p] # Unknown => disk'[p] # Unknown
        /\ \A p \in Printers : Only(search.added, search.found)[p] # Unknown => disk'[p] # Unknown
    BY <2>1, <2>2, MergeKeeps DEF Persisted
  <2>4. Readable(disk) = disk \/ disk = TornFile
    BY DEF Readable
  <2>5. \A p \in Printers : disk[p] # Unknown => disk'[p] # Unknown
    <3>1. CASE disk = TornFile
      BY <1>k, <3>1 DEF TornFile, Knowledge, AllLevels
    <3> QED BY <2>3, <2>4, <3>1
  <2>6. \A p \in search.added : disk'[p] # Unknown
    BY <1>0, <1>4, <1>k, <2>3 DEF Only, Save, SweepType
  <2>7. \A p \in Printers : Loaded(disk)[p] # Unknown => Loaded(disk')[p] # Unknown
    BY <1>k, <2>3, <2>5, LoadedKeeps, KnowledgeTypes
  <2>8. \A p \in search.added : Loaded(disk')[p] # Unknown
    BY <1>0, <2>3, <2>6, LoadedKeeps, KnowledgeTypes DEF SweepType
  <2>9. /\ UNCHANGED <<devices, announced>> /\ search.pc = "save"
        /\ search'.pc = "report" /\ search'.added = search.added
    BY <1>0, <1>4 DEF Save, SweepType
  <2>10. \A p \in announced' : KeptFor(p)'
    BY <1>0, <1>k, <2>7, <2>9 DEF KeptFor
  <2>11. \A p \in search'.added : KeptFor(p)'
    BY <1>k, <2>8, <2>9 DEF KeptFor
  <2> QED BY <2>3, <2>9, <2>10, <2>11
<1>5. CASE ReportSearch
  <2>1. UNCHANGED <<disk, devices>> /\ announced' \subseteq announced \cup search.added
    BY <1>5 DEF ReportSearch
  <2>2. search.pc = "report" /\ search'.pc = "hand" /\ search'.added = search.added
    BY <1>0, <1>5 DEF ReportSearch, SweepType
  <2> QED BY <1>k, <2>1, <2>2 DEF KeptFor
<1>6. CASE HandOver
  BY <1>0, <1>6, <1>k DEF HandOver, KeptFor
<1>7. CASE Kill
  <2>1. disk' = disk /\ devices' = Loaded(disk) /\ UNCHANGED announced /\ search' = NoSearch
    BY <1>0, <1>u, <1>7 DEF Kill
  <2> QED BY <1>0, <1>k, <2>1 DEF KeptFor
<1> QED
  BY <1>1, <1>2, <1>3, <1>4, <1>5, <1>6, <1>7 DEF AgentLoopNext, PollerStep, SearchStep

(* Printers "survive [a restart] if it happens": what a person was told a   *)
(* search had found stays listed, after any number of later sweeps, by      *)
(* command or not, and of ends of the process, as long as discovered.yaml   *)
(* could be read and written.                                               *)
THEOREM AnnouncedAreKept == AgentLoopSpec => []AnnouncedStay
<1>1. AgentLoopInit => FileKeeps
  BY KnowledgeTypes DEF AgentLoopInit, FileKeeps, NoSearch
<1>2. FileKeeps => AnnouncedStay
  BY DEF FileKeeps, AnnouncedStay, KeptFor
<1> QED BY <1>1, <1>2, FileKeepsStep, LoopTyped, PTL DEF AgentLoopSpec
-----------------------------------------------------------------------------
(* The log: an upload under way carries a day's file as it was or less.     *)
DayEntry(e) == e.file \in 1 .. today /\ e.lines \in 0 .. lines[e.file] /\ e.newer \in BOOLEAN
UploadsCurrent ==
  \A l \in Loops :
    /\ uploads[l].phase \in {"read", "sent"} =>
         uploads[l].file \in 1 .. today /\ uploads[l].lines \in 0 .. lines[uploads[l].file]
    /\ uploads[l].phase = "sent" => uploads[l].date \in 1 .. today

LEMMA LogStepType ==
  AgentLogTypeOK /\ UploadsCurrent /\ [AgentLogNext]_lvars => AgentLogTypeOK' /\ UploadsCurrent'
<1> SUFFICES ASSUME AgentLogTypeOK, UploadsCurrent, [AgentLogNext]_lvars
             PROVE  AgentLogTypeOK' /\ UploadsCurrent'
  OBVIOUS
<1> DEFINE Counts == requests \in 0 .. MaxLogRequests /\ logFaults \in 0 .. MaxLogFaults
           Entries == DOMAIN entries \subseteq 1 .. today /\ \A d \in DOMAIN entries : DayEntry(entries[d])
           Clock == today \in LogDays /\ logDay \in 1 .. today /\ requested \in BOOLEAN
           Contents == lines \in [LogDays -> 0 .. MaxLines] /\ uploads \in [Loops -> Upload]
<1>0. /\ {Retention, LastDay, MaxLines, MaxLogRequests, MaxLogFaults} \subseteq Nat /\ LastDay > 0
      /\ Counts /\ Entries /\ Clock /\ Contents
  BY AgentLogAssumption DEF AgentLogTypeOK, DayEntry
<1>n. NoUpload \in Upload /\ NoUpload.phase = "none"
  BY <1>0 DEF NoUpload, Upload
<1>f. LogFault => logFaults' \in 0 .. MaxLogFaults
  BY <1>0 DEF LogFault
<1>t. Counts' /\ Entries' /\ Clock' /\ Contents' => AgentLogTypeOK'
  BY DEF AgentLogTypeOK, DayEntry
<1>1. CASE Midnight
  <2>1. today' \in LogDays /\ today' = today + 1
    BY <1>0, <1>1 DEF Midnight, LogDays
  <2>2. UNCHANGED <<logDay, lines, uploads, entries, requested, requests, logFaults>>
    BY <1>1 DEF Midnight
  <2>3. 1 .. today \subseteq 1 .. today'
    BY <1>0, <2>1 DEF LogDays
  <2>4. Entries'
    BY <1>0, <2>2, <2>3 DEF DayEntry
  <2>5. UploadsCurrent'
    BY <2>2, <2>3 DEF UploadsCurrent
  <2> QED BY <1>0, <1>t, <2>1, <2>2, <2>3, <2>4, <2>5
<1>2. CASE WriteLine
  <2>1. /\ UNCHANGED <<today, logDay, uploads, entries, requested, requests, logFaults>>
        /\ lines' = [lines EXCEPT ![logDay] = lines[logDay] + 1] /\ lines[logDay] < MaxLines
    BY <1>2 DEF WriteLine
  <2>2. logDay \in LogDays /\ 1 .. today \subseteq LogDays
    BY <1>0 DEF LogDays
  <2>3. lines' \in [LogDays -> 0 .. MaxLines]
    BY <1>0, <2>1, <2>2
  <2>4. \A d \in 1 .. today : 0 .. lines[d] \subseteq 0 .. lines'[d]
    BY <1>0, <2>1, <2>2
  <2>5. Entries'
    BY <1>0, <2>1, <2>4 DEF DayEntry
  <2>6. UploadsCurrent'
    BY <2>1, <2>4 DEF UploadsCurrent
  <2> QED BY <1>0, <1>t, <2>1, <2>3, <2>5, <2>6
<1>3. CASE Rotate
  <2>1. UNCHANGED <<today, lines, uploads, entries, requested, requests>>
    BY <1>3 DEF Rotate
  <2>2. logDay' \in 1 .. today /\ logFaults' \in 0 .. MaxLogFaults
    BY <1>0, <1>3, <1>f DEF Rotate, NoLogFault, LogDays
  <2>3. Entries' /\ UploadsCurrent'
    BY <1>0, <2>1 DEF DayEntry, UploadsCurrent
  <2> QED BY <1>0, <1>t, <2>1, <2>2, <2>3
<1>4. CASE RestartAgent
  <2>1. UNCHANGED <<today, lines, entries, requested, requests>>
    BY <1>4 DEF RestartAgent
  <2>2. logDay' \in 1 .. today /\ logFaults' \in 0 .. MaxLogFaults /\ uploads' = [l \in Loops |-> NoUpload]
    BY <1>0, <1>4, <1>f DEF RestartAgent, LogDays
  <2>3. Entries' /\ UploadsCurrent' /\ uploads' \in [Loops -> Upload]
    BY <1>0, <1>n, <2>1, <2>2 DEF DayEntry, UploadsCurrent
  <2> QED BY <1>0, <1>t, <2>1, <2>2, <2>3
<1>5. CASE RequestLog
  <2>1. /\ UNCHANGED <<today, logDay, lines, uploads, logFaults>>
        /\ requests' \in 0 .. MaxLogRequests /\ requested' \in BOOLEAN
        /\ entries' = [d \in DOMAIN entries |-> [entries[d] EXCEPT !.newer = FALSE]]
    BY <1>0, <1>5 DEF RequestLog
  <2>2. UploadsCurrent'
    BY <2>1 DEF UploadsCurrent
  <2>3. Entries'
    <3>1. DOMAIN entries' = DOMAIN entries
      BY <2>1
    <3>2. ASSUME NEW d \in DOMAIN entries PROVE DayEntry(entries[d])'
      <4>1. entries'[d] = [entries[d] EXCEPT !.newer = FALSE]
        BY <2>1
      <4>2. DayEntry(entries[d])
        BY <1>0
      <4>3. entries'[d].file = entries[d].file /\ entries'[d].lines = entries[d].lines
        BY <4>1
      <4>4. entries'[d].newer \in BOOLEAN
        BY <4>1, <4>2
      <4> QED BY <2>1, <4>2, <4>3, <4>4 DEF DayEntry
    <3> QED BY <1>0, <2>1, <3>1, <3>2
  <2> QED BY <1>0, <1>t, <2>1, <2>2, <2>3
<1>6. CASE PruneOldLogs
  <2>1. /\ UNCHANGED <<today, logDay, lines, uploads, requested, requests, logFaults>>
        /\ \E kept \in SUBSET DOMAIN entries : entries' = [d \in kept |-> entries[d]]
    BY <1>6 DEF PruneOldLogs
  <2>2. Entries' /\ UploadsCurrent'
    BY <1>0, <2>1 DEF DayEntry, UploadsCurrent
  <2> QED BY <1>0, <1>t, <2>1, <2>2
<1>7. ASSUME NEW l \in Loops, ReadLog(l) PROVE AgentLogTypeOK' /\ UploadsCurrent'
  <2> DEFINE u == [phase |-> "read", file |-> logDay, lines |-> lines[logDay], date |-> 0]
  <2>1. /\ UNCHANGED <<today, logDay, lines, entries, requested, requests, logFaults>>
        /\ uploads' = [uploads EXCEPT ![l] = u]
    BY <1>7 DEF ReadLog
  <2>2. logDay \in LogDays /\ logDay \in 0 .. LastDay /\ lines[logDay] \in 0 .. MaxLines
    BY <1>0 DEF LogDays
  <2>3. u \in Upload
    BY <1>0, <2>2 DEF Upload
  <2>4. uploads' \in [Loops -> Upload]
    BY <1>0, <2>1, <2>3
  <2>5. UploadsCurrent'
    BY <1>0, <2>1, <2>2 DEF UploadsCurrent
  <2>6. Entries'
    BY <1>0, <2>1 DEF DayEntry
  <2> QED BY <1>0, <1>t, <2>1, <2>4, <2>5, <2>6
<1>8. ASSUME NEW l \in Loops, PostLog(l) PROVE AgentLogTypeOK' /\ UploadsCurrent'
  <2>1. /\ UNCHANGED <<today, logDay, lines, entries, requested, requests, logFaults>>
        /\ uploads' = [uploads EXCEPT ![l] = [uploads[l] EXCEPT !.phase = "sent", !.date = today]]
        /\ uploads[l].phase = "read"
    BY <1>8 DEF PostLog, LogDate
  <2>2. today \in 0 .. LastDay /\ today \in 1 .. today
    BY <1>0 DEF LogDays
  <2>3. uploads' \in [Loops -> Upload]
    BY <1>0, <2>1, <2>2 DEF Upload
  <2>4. UploadsCurrent'
    BY <1>0, <2>1, <2>2 DEF UploadsCurrent, Upload
  <2>5. Entries'
    BY <1>0, <2>1 DEF DayEntry
  <2> QED BY <1>0, <1>t, <2>1, <2>3, <2>4, <2>5
<1>9. ASSUME NEW l \in Loops, RecordUpload(l) PROVE AgentLogTypeOK' /\ UploadsCurrent'
  <2>1. /\ UNCHANGED <<today, logDay, lines, requested, requests>> /\ uploads[l].phase = "sent"
        /\ uploads' = [uploads EXCEPT ![l] = NoUpload]
        /\ logFaults' \in 0 .. MaxLogFaults
    BY <1>0, <1>9, <1>f DEF RecordUpload, NoLogFault
  <2>2. UploadsCurrent' /\ uploads' \in [Loops -> Upload]
    BY <1>0, <1>n, <2>1 DEF UploadsCurrent
  <2>3. DayEntry(Entry(uploads[l])) /\ uploads[l].date \in 1 .. today
    BY <2>1 DEF UploadsCurrent, DayEntry, Entry
  <2>4. Entries'
    <3>1. CASE UNCHANGED entries
      BY <1>0, <2>1, <3>1 DEF DayEntry
    <3>2. CASE entries' = [d \in DOMAIN entries \cup {uploads[l].date} |->
                             IF d = uploads[l].date THEN Entry(uploads[l]) ELSE entries[d]]
      <4>1. \A d \in DOMAIN entries' : DayEntry(entries'[d])
        BY <1>0, <2>3, <3>2
      <4>2. \A d \in DOMAIN entries' : DayEntry(entries[d])'
        BY <2>1, <4>1 DEF DayEntry
      <4> QED BY <1>0, <2>1, <2>3, <3>2, <4>2
    <3> QED BY <1>9, <3>1, <3>2 DEF RecordUpload
  <2> QED BY <1>0, <1>t, <2>1, <2>2, <2>4
<1>10. CASE CheckLog
  <2>1. /\ UNCHANGED <<today, logDay, lines, entries, requested, requests, logFaults>>
        /\ uploads' = [uploads EXCEPT !["control"] = [uploads["control"] EXCEPT !.phase = "asked"]]
    BY <1>10 DEF CheckLog
  <2>2. uploads' \in [Loops -> Upload]
    BY <1>0, <2>1 DEF Upload, Loops
  <2>3. UploadsCurrent'
    BY <1>0, <2>1 DEF UploadsCurrent, Upload, Loops
  <2>4. Entries'
    BY <1>0, <2>1 DEF DayEntry
  <2> QED BY <1>0, <1>t, <2>1, <2>2, <2>3, <2>4
<1>11. CASE UNCHANGED lvars
  <2>1. UNCHANGED <<today, logDay, lines, uploads, entries, requested, requests, logFaults>>
    BY <1>11 DEF lvars
  <2>2. Entries' /\ UploadsCurrent'
    BY <1>0, <2>1 DEF DayEntry, UploadsCurrent
  <2> QED BY <1>0, <1>t, <2>1, <2>2
<1> QED BY <1>1, <1>2, <1>3, <1>4, <1>5, <1>6, <1>7, <1>8, <1>9, <1>10, <1>11 DEF AgentLogNext

LEMMA LogInitType == AgentLogInit => AgentLogTypeOK /\ UploadsCurrent
<1> SUFFICES ASSUME AgentLogInit PROVE AgentLogTypeOK /\ UploadsCurrent
  OBVIOUS
<1>1. LastDay \in Nat /\ LastDay > 0 /\ {MaxLines, MaxLogRequests, MaxLogFaults} \subseteq Nat
  BY AgentLogAssumption
<1>2. NoUpload \in Upload /\ NoUpload.phase = "none"
  BY <1>1 DEF NoUpload, Upload
<1>3. uploads \in [Loops -> Upload] /\ UploadsCurrent
  BY <1>2 DEF AgentLogInit, UploadsCurrent
<1>4. lines \in [LogDays -> 0 .. MaxLines] /\ today \in LogDays /\ logDay \in 1 .. today
  BY <1>1 DEF AgentLogInit, LogDays
<1>5. DOMAIN entries = {}
  BY DEF AgentLogInit
<1>6. requests \in 0 .. MaxLogRequests /\ logFaults \in 0 .. MaxLogFaults
  <2>1. MaxLogRequests \in Nat /\ MaxLogFaults \in Nat
    BY AgentLogAssumption
  <2> QED BY <2>1 DEF AgentLogInit
<1>7. requested \in BOOLEAN
  BY DEF AgentLogInit
<1> QED BY <1>3, <1>4, <1>5, <1>6, <1>7 DEF AgentLogTypeOK

(* The log of an agent and what is stored of it keep their shape: an entry  *)
(* holds the file of a day that has come, as it was or shorter.             *)
THEOREM LogTyped == AgentLogSpec => []AgentLogTypeOK
BY LogInitType, LogStepType, PTL DEF AgentLogSpec

(* "RETENTION_DAYS": no stored log that is younger, in the agent's days, is *)
(* pruned, though pruneOldLogs counts by the server's day.                  *)
THEOREM LogsAreKept == AgentLogSpec => LogsKept
<1>1. ASSUME AgentLogTypeOK, [AgentLogNext]_lvars, NEW d \in DOMAIN entries \ DOMAIN entries'
      PROVE  d + Retention <= today
  <2>0. d \in Nat /\ today \in Nat /\ Retention \in Nat
    BY <1>1, AgentLogAssumption DEF AgentLogTypeOK, LogDays
  <2>1. ASSUME DOMAIN entries \subseteq DOMAIN entries' PROVE FALSE
    BY <2>1
  <2>2. CASE PruneOldLogs
    <3>1. PICK day \in {today, today + 1} : Outdated(d, day)
      BY <2>2 DEF PruneOldLogs
    <3> QED BY <2>0, <3>1 DEF Outdated
  <2>3. CASE RequestLog
    BY <2>1, <2>3 DEF RequestLog
  <2>4. ASSUME NEW l \in Loops, ReadLog(l) \/ PostLog(l) \/ RecordUpload(l) PROVE FALSE
    BY <2>1, <2>4 DEF ReadLog, PostLog, RecordUpload
  <2>5. CASE Midnight \/ WriteLine \/ Rotate \/ RestartAgent \/ CheckLog \/ UNCHANGED lvars
    BY <2>1, <2>5 DEF Midnight, WriteLine, Rotate, RestartAgent, CheckLog, lvars
  <2> QED BY <1>1, <2>2, <2>3, <2>4, <2>5 DEF AgentLogNext
<1>2. AgentLogTypeOK /\ [AgentLogNext]_lvars =>
        [\A d \in DOMAIN entries \ DOMAIN entries' : d + Retention <= today]_lvars
  BY <1>1
<1> QED BY <1>2, LogTyped, PTL DEF AgentLogSpec, LogsKept
-----------------------------------------------------------------------------
(* Discovery: where a sweep goes.                                           *)
Known == [host : DOMAIN targets, community : Communities, noSNMP : BOOLEAN, model : BOOLEAN]
SmallNets == {n \in site.panel \cup site.adNets \cup site.routes : Cardinality(n) <= SmallNet}
NearHints == {Slash24(h) : h \in Private \cap (Named \cup DOMAIN polling)}
ScopeNear == scope \subseteq OwnNets \cup SmallNets \cup NearHints
PointedTo ==
  /\ \A h \in DOMAIN targets : targets[h].named => h \in Named
  /\ silent \subseteq Named
  /\ ScopeNear /\ NoForeignSweep /\ OnlyNearDialed

\* What a site names is on it.
LEMMA OnSite ==
  ASSUME site \in Sites
  PROVE  /\ Named \subseteq Addresses /\ Addresses \subseteq Nat
         /\ \A n \in OwnNets \cup site.panel \cup site.adNets \cup site.routes : n \subseteq Addresses
         /\ \A n \in OwnNets \cup site.panel : n \subseteq ConfiguredNets
         /\ \A p \in site.ports : p.community \in Communities \cup {NoCommunity}
         /\ \A h \in Addresses \cap Private : h \in Slash24(h) /\ Slash24(h) \subseteq Private \cap Addresses
<1>1. IsSite(site)
  BY DiscoveryAssumption
<1>2. Named \subseteq Addresses /\ Addresses \subseteq Nat
  BY <1>1 DEF IsSite, Named, Addresses
<1>3. \A n \in OwnNets : n \in site.ranges \/ \E i \in site.interfaces : n = i.net
  BY DEF OwnNets
<1>4. \A n \in OwnNets \cup site.panel \cup site.adNets \cup site.routes : n \subseteq Addresses
  BY <1>1, <1>3 DEF IsSite, Addresses
<1>5. \A n \in OwnNets \cup site.panel : n \subseteq ConfiguredNets
  <2>1. \A nets : \A n \in nets : n \subseteq UNION nets
    OBVIOUS
  <2> DEFINE nets == site.ranges \cup site.panel \cup {i.net : i \in site.interfaces}
  <2>2. ConfiguredNets = UNION nets
    BY DEF ConfiguredNets
  <2>3. OwnNets \cup site.panel \subseteq nets
    BY <1>3
  <2> HIDE DEF nets
  <2> QED BY <2>1, <2>2, <2>3
<1>6. \A p \in site.ports : p.community \in Communities \cup {NoCommunity}
  BY <1>1 DEF IsSite
<1>7. \A h \in Addresses \cap Private : h \in Slash24(h) /\ Slash24(h) \subseteq Private \cap Addresses
  BY <1>1 DEF IsSite, Addresses, Slash24
<1> QED BY <1>2, <1>4, <1>5, <1>6, <1>7

LEMMA HostsWithin == \A nets : HostsOf(nets) \subseteq UNION nets
BY DEF HostsOf, HostsIn

\* autoNetworks takes private networks of those two sources.
LEMMA AutoPrivate ==
  \A covered, adNets, routes : \A n \in AutoNetworks(covered, adNets, routes) :
    n \subseteq Private /\ n \in adNets \cup routes
BY DEF AutoNetworks, PickAutoNets

LEMMA NeighboursHinted ==
  \A named, known, covered : \A near \in NeighbourNets(named, known, covered) :
    \A n \in near : \E h \in Private \cap (named \cup known) : n = Slash24(h)
BY DEF NeighbourNets, Near

\* What merging two sets of targets keeps of each.
LEMMA TargetsMerged ==
  ASSUME NEW base, NEW extra,
         \A h \in DOMAIN base : base[h] \in Target, \A h \in DOMAIN extra : extra[h] \in Target
  PROVE  /\ DOMAIN MergeTargets(base, extra) = DOMAIN base \cup DOMAIN extra
         /\ \A h \in DOMAIN base \cup DOMAIN extra :
              /\ MergeTargets(base, extra)[h] \in Target
              /\ MergeTargets(base, extra)[h].named =>
                   (h \in DOMAIN base /\ base[h].named) \/ (h \in DOMAIN extra /\ extra[h].named)
<1> DEFINE all == MergeTargets(base, extra)
<1>1. DOMAIN all = DOMAIN base \cup DOMAIN extra
  BY DEF MergeTargets
<1>2. ASSUME NEW h \in DOMAIN base \cup DOMAIN extra
      PROVE  /\ all[h] \in Target
             /\ all[h].named => (h \in DOMAIN base /\ base[h].named) \/ (h \in DOMAIN extra /\ extra[h].named)
  <2>1. CASE h \notin DOMAIN extra
    BY <1>2, <2>1 DEF MergeTargets
  <2>2. CASE h \in DOMAIN extra
    <3>1. all[h] = [extra[h] EXCEPT !.named = extra[h].named \/ (h \in DOMAIN base /\ base[h].named)]
      BY <2>2 DEF MergeTargets
    <3>2. extra[h] \in Target
      BY <2>2
    <3>3. (extra[h].named \/ (h \in DOMAIN base /\ base[h].named)) \in BOOLEAN
      OBVIOUS
    <3>4. all[h] \in Target
      BY <3>1, <3>2, <3>3 DEF Target
    <3>5. all[h].named = (extra[h].named \/ (h \in DOMAIN base /\ base[h].named))
      BY <3>1, <3>2 DEF Target
    <3> QED BY <2>2, <3>4, <3>5
  <2> QED BY <2>1, <2>2
<1> QED BY <1>1, <1>2

LEMMA SweepTargets ==
  \A hosts : /\ DOMAIN Sweep(hosts) = hosts
             /\ \A h \in hosts : Sweep(hosts)[h] \in Target /\ ~Sweep(hosts)[h].named
BY DiscoveryAssumption DEF Sweep, Target

LEMMA PortsTargeted ==
  ASSUME NEW ports, \A p \in ports : p.community \in Communities \cup {NoCommunity}
  PROVE  /\ DOMAIN PortTargets(ports) = {p.host : p \in ports}
         /\ \A h \in {p.host : p \in ports} : PortTargets(ports)[h] \in Target
<1>1. DOMAIN PortTargets(ports) = {p.host : p \in ports}
  BY DEF PortTargets
<1>2. ASSUME NEW h \in {p.host : p \in ports} PROVE PortTargets(ports)[h] \in Target
  <2> DEFINE own == (CHOOSE p \in ports : p.host = h).community
  <2>1. own \in Communities \cup {NoCommunity}
    <3>1. \E p \in ports : p.host = h
      BY <1>2
    <3> QED BY <3>1
  <2>2. PortTargets(ports)[h] =
          [community |-> IF own = NoCommunity THEN Default ELSE own, named |-> TRUE]
    BY <1>2 DEF PortTargets
  <2> HIDE DEF own
  <2> QED BY <2>1, <2>2, DiscoveryAssumption DEF Target
<1> QED BY <1>1, <1>2

\* BeginSweep's targets: each was named, configured, on a private network that
\* was picked, or in a private /24 with a hint.
LEMMA BeginsNear ==
  ASSUME DiscoveryTypeOK, NEW failed \in SUBSET Lookups, BeginSweep(failed)
  PROVE  /\ DOMAIN targets' \subseteq Addresses /\ \A h \in DOMAIN targets' : targets'[h] \in Target
         /\ \A h \in DOMAIN targets' : targets'[h].named => h \in Named
         /\ NoForeignSweep'
         /\ ScopeNear' /\ \A n \in scope' : n \subseteq Addresses
<1> DEFINE adNets == IF "subnets" \in failed THEN {} ELSE site.adNets
           routes == IF "routes" \in failed THEN {} ELSE site.routes
           auto == AutoNetworks(OwnNets \cup site.panel, adNets, routes)
           searched == OwnNets \cup site.panel \cup auto
           bySweep == Sweep(HostsOf(searched))
           byPort == PortTargets(site.ports)
           queued == IF "queues" \in failed THEN {} ELSE QueuePorts
           byQueue == PortTargets(queued)
           ports == MergeTargets(bySweep, byPort)
           all == MergeTargets(ports, byQueue)
           named == {h \in DOMAIN all : all[h].named}
<1>0. site \in Sites /\ DOMAIN polling \subseteq Addresses
  BY DEF DiscoveryTypeOK
<1>1. PICK near \in NeighbourNets(named, DOMAIN polling, searched) :
        /\ targets' = MergeTargets(all, Sweep(HostsOf(near)))
        /\ scope' = JetdirectScope(near, site.panel \cup auto)
  BY DEF BeginSweep
<1>2. UNCHANGED <<site, polling>>
  BY DEF BeginSweep
<1>3. \A n \in auto : n \subseteq Private /\ n \in site.adNets \cup site.routes
  BY AutoPrivate
<1>4. /\ DOMAIN bySweep = HostsOf(searched)
      /\ \A h \in DOMAIN bySweep : bySweep[h] \in Target /\ ~bySweep[h].named
  BY SweepTargets
<1>5. DOMAIN byPort = {p.host : p \in site.ports} /\ \A h \in DOMAIN byPort : byPort[h] \in Target
  BY <1>0, OnSite, PortsTargeted
<1>6. DOMAIN byQueue \subseteq site.queues /\ \A h \in DOMAIN byQueue : byQueue[h] \in Target
  <2>1. \A p \in queued : p.community \in Communities \cup {NoCommunity}
    BY DEF QueuePorts
  <2>2. \A p \in queued : p.host \in site.queues
    BY DEF QueuePorts
  <2> HIDE DEF queued
  <2>3. DOMAIN byQueue = {p.host : p \in queued} /\ \A h \in {p.host : p \in queued} : byQueue[h] \in Target
    BY <2>1, PortsTargeted
  <2> HIDE DEF byQueue
  <2> QED BY <2>2, <2>3
<1> HIDE DEF bySweep, byPort, byQueue
<1>7. /\ DOMAIN ports = HostsOf(searched) \cup DOMAIN byPort
      /\ \A h \in DOMAIN ports : ports[h] \in Target /\ (ports[h].named => h \in DOMAIN byPort)
  <2>1. \A h \in DOMAIN bySweep : bySweep[h] \in Target
    BY <1>4
  <2>2. \A h \in DOMAIN byPort : byPort[h] \in Target
    BY <1>5
  <2>3. /\ DOMAIN ports = DOMAIN bySweep \cup DOMAIN byPort
        /\ \A h \in DOMAIN bySweep \cup DOMAIN byPort :
             /\ ports[h] \in Target
             /\ ports[h].named => (h \in DOMAIN bySweep /\ bySweep[h].named) \/ (h \in DOMAIN byPort /\ byPort[h].named)
    BY <2>1, <2>2, TargetsMerged
  <2> HIDE DEF ports
  <2> QED BY <1>4, <1>5, <2>3
<1> HIDE DEF ports
<1>8. /\ DOMAIN all = HostsOf(searched) \cup DOMAIN byPort \cup DOMAIN byQueue
      /\ \A h \in DOMAIN all : all[h] \in Target /\ (all[h].named => h \in DOMAIN byPort \cup DOMAIN byQueue)
  <2>1. \A h \in DOMAIN ports : ports[h] \in Target
    BY <1>7
  <2>2. \A h \in DOMAIN byQueue : byQueue[h] \in Target
    BY <1>6
  <2>3. /\ DOMAIN all = DOMAIN ports \cup DOMAIN byQueue
        /\ \A h \in DOMAIN ports \cup DOMAIN byQueue :
             /\ all[h] \in Target
             /\ all[h].named => (h \in DOMAIN ports /\ ports[h].named) \/ (h \in DOMAIN byQueue /\ byQueue[h].named)
    BY <2>1, <2>2, TargetsMerged
  <2> HIDE DEF all
  <2> QED BY <1>7, <1>6, <2>3
<1> HIDE DEF all
<1>9. DOMAIN byPort \cup DOMAIN byQueue \subseteq Named
  BY <1>5, <1>6 DEF Named
<1>10. named \subseteq Named
  BY <1>8, <1>9
<1>11. \A n \in near : \E h \in Private \cap (Named \cup DOMAIN polling) : n = Slash24(h)
  <2>1. \A n \in near : \E h \in Private \cap (named \cup DOMAIN polling) : n = Slash24(h)
    <3> HIDE DEF named, searched
    <3> QED BY <1>1, NeighboursHinted
  <2> HIDE DEF named
  <2> QED BY <1>10, <2>1
<1>12. \A n \in near : n \subseteq Private \cap Addresses
  BY <1>0, <1>11, OnSite
<1>13. DOMAIN Sweep(HostsOf(near)) = HostsOf(near)
       /\ \A h \in HostsOf(near) : Sweep(HostsOf(near))[h] \in Target /\ ~Sweep(HostsOf(near))[h].named
  BY SweepTargets
<1>14. /\ DOMAIN targets' = DOMAIN all \cup HostsOf(near)
       /\ \A h \in DOMAIN targets' : targets'[h] \in Target /\ (targets'[h].named => h \in Named)
  <2> DEFINE byHint == Sweep(HostsOf(near))
  <2>1. \A h \in DOMAIN all : all[h] \in Target
    BY <1>8
  <2>2. \A h \in DOMAIN byHint : byHint[h] \in Target /\ ~byHint[h].named
    BY <1>13
  <2>3. targets' = MergeTargets(all, byHint) /\ DOMAIN byHint = HostsOf(near)
    BY <1>1, <1>13
  <2> HIDE DEF byHint
  <2>4. /\ DOMAIN targets' = DOMAIN all \cup DOMAIN byHint
        /\ \A h \in DOMAIN all \cup DOMAIN byHint :
             /\ targets'[h] \in Target
             /\ targets'[h].named => (h \in DOMAIN all /\ all[h].named) \/ (h \in DOMAIN byHint /\ byHint[h].named)
    BY <2>1, <2>2, <2>3, TargetsMerged
  <2> QED BY <1>8, <1>9, <2>2, <2>3, <2>4
<1>15. HostsOf(searched) \subseteq Addresses \cap (Private \cup ConfiguredNets)
  <2>1. \A n \in OwnNets \cup site.panel : n \subseteq Addresses /\ n \subseteq ConfiguredNets
    BY <1>0, OnSite
  <2>2. \A n \in auto : n \subseteq Addresses \cap Private
    <3> HIDE DEF auto
    <3> QED BY <1>0, <1>3, OnSite
  <2>3. \A n \in searched : n \subseteq Addresses \cap (Private \cup ConfiguredNets)
    <3> HIDE DEF auto
    <3> QED BY <2>1, <2>2
  <2> HIDE DEF searched
  <2> QED BY <2>3, HostsWithin
<1> HIDE DEF auto, searched, named
<1>16. HostsOf(near) \subseteq Addresses \cap Private
  BY <1>12, HostsWithin
<1>17. DOMAIN targets' \subseteq Addresses \cap (Private \cup Named \cup ConfiguredNets)
  BY <1>0, <1>8, <1>9, <1>14, <1>15, <1>16, OnSite
<1>18. /\ Named' = Named /\ ConfiguredNets' = ConfiguredNets /\ OwnNets' = OwnNets
       /\ SmallNets' = SmallNets /\ NearHints' = NearHints
  BY <1>2 DEF Named, ConfiguredNets, OwnNets, SmallNets, NearHints, Slash24, Addresses
<1>19. scope' \subseteq OwnNets \cup SmallNets \cup NearHints
  BY <1>1, <1>3, <1>11 DEF JetdirectScope, SmallNets, NearHints
<1>20. \A n \in scope' : n \subseteq Addresses
  BY <1>0, <1>1, <1>3, <1>12, OnSite DEF JetdirectScope
<1> QED BY <1>14, <1>17, <1>18, <1>19, <1>20 DEF NoForeignSweep, ScopeNear

\* Replies that are not in yet are not missed yet.
NoneMissed == stage \in {"idle", "probe"} => silent = {} /\ timedOut = {}

LEMMA DiscoveryInitTyped == DiscoveryInit => DiscoveryTypeOK /\ NoneMissed /\ PointedTo
<1> SUFFICES ASSUME DiscoveryInit PROVE DiscoveryTypeOK /\ NoneMissed /\ PointedTo
  OBVIOUS
<1>1. /\ DOMAIN polling = {} /\ DOMAIN targets = {} /\ scope = {} /\ found = {} /\ silent = {}
      /\ timedOut = {} /\ dialed = {} /\ stage = "idle" /\ site \in Sites
  BY DEF DiscoveryInit
<1>2. lostReplies \in 0 .. MaxLostReplies /\ lookups \in 0 .. MaxLookups
  BY DiscoveryAssumption DEF DiscoveryInit
<1>3. DiscoveryTypeOK
  BY <1>1, <1>2 DEF DiscoveryTypeOK
<1>4. PointedTo
  BY <1>1 DEF PointedTo, ScopeNear, NoForeignSweep, OnlyNearDialed
<1> QED BY <1>1, <1>3, <1>4 DEF NoneMissed

\* A step that leaves the site, what is polled and the targets alone.
LEMMA WithinSweep ==
  ASSUME DiscoveryTypeOK, UNCHANGED <<site, polling, targets>>,
         stage' \in {"probe", "named", "silent", "merge"},
         UNCHANGED scope, found' \subseteq Known,
         silent' \cup timedOut' \subseteq DOMAIN targets, silent' \cap timedOut' = {},
         dialed' \subseteq Addresses,
         lostReplies' \in 0 .. MaxLostReplies, UNCHANGED lookups
  PROVE  DiscoveryTypeOK'
BY DEF DiscoveryTypeOK, Addresses, Known

LEMMA BeginSweepTyped ==
  ASSUME DiscoveryTypeOK, NoneMissed, NEW failed \in SUBSET Lookups, BeginSweep(failed)
  PROVE  DiscoveryTypeOK'
<1>1. UNCHANGED <<site, polling, silent, timedOut, lostReplies>> /\ stage = "idle"
  BY DEF BeginSweep
<1>2. stage' = "probe" /\ found' = {} /\ dialed' = {}
  BY DEF BeginSweep
<1>3. lookups' \in 0 .. MaxLookups
  <2>1. /\ IsFiniteSet({"subnets"}) /\ IsFiniteSet({"routes"}) /\ IsFiniteSet({"queues"})
    BY FS_Singleton
  <2>2. Lookups = ({"subnets"} \cup {"routes"}) \cup {"queues"}
    BY DEF Lookups
  <2>3. IsFiniteSet({"subnets"} \cup {"routes"})
    BY <2>1, FS_Union
  <2>4. IsFiniteSet(Lookups)
    BY <2>1, <2>2, <2>3, FS_Union
  <2>5. Cardinality(failed) \in Nat
    BY <2>4, FS_Subset, FS_CardinalityType
  <2> QED BY <2>5, DiscoveryAssumption DEF BeginSweep, DiscoveryTypeOK
<1>4. silent' = {} /\ timedOut' = {}
  BY <1>1 DEF NoneMissed
<1>5. /\ DOMAIN targets' \subseteq Addresses /\ \A h \in DOMAIN targets' : targets'[h] \in Target
      /\ \A n \in scope' : n \subseteq Addresses
  BY BeginsNear
<1> QED BY <1>1, <1>2, <1>3, <1>4, <1>5 DEF DiscoveryTypeOK, Addresses

LEMMA ProbeAllTyped ==
  ASSUME DiscoveryTypeOK, NEW n \in 0 .. MaxLostReplies - lostReplies,
         NEW missed \in kSubset(n, DOMAIN targets), NEW failed \in SUBSET missed,
         ProbeAll(missed, failed)
  PROVE  DiscoveryTypeOK'
<1> DEFINE heard == {h \in DOMAIN targets \ missed : Answers(h, targets[h].community)}
<1>1. /\ UNCHANGED <<site, polling, targets, scope, dialed, lookups>> /\ stage' = "named"
      /\ lostReplies' = lostReplies + Cardinality(missed)
      /\ found' = {Found(h, targets[h].community) : h \in {k \in heard : Printer(k)}}
      /\ silent' = {h \in DOMAIN targets \ heard : targets[h].named}
      /\ timedOut' = {h \in (DOMAIN targets \ heard) \ failed : ~targets[h].named}
  BY DEF ProbeAll
<1>2. lostReplies' \in 0 .. MaxLostReplies
  <2>1. Cardinality(missed) = n
    BY DEF kSubset
  <2> QED BY <1>1, <2>1, DiscoveryAssumption DEF DiscoveryTypeOK
<1>3. \A h \in heard : Found(h, targets[h].community) \in Known
  BY DEF DiscoveryTypeOK, Target, Found, Known
<1>4. found' \subseteq Known /\ dialed' \subseteq Addresses
  BY <1>1, <1>3 DEF DiscoveryTypeOK
<1>5. silent' \cup timedOut' \subseteq DOMAIN targets /\ silent' \cap timedOut' = {}
  BY <1>1
<1> HIDE DEF heard
<1> QED BY <1>1, <1>2, <1>4, <1>5, WithinSweep

LEMMA CheckNamedTyped ==
  ASSUME DiscoveryTypeOK, CheckNamed
  PROVE  DiscoveryTypeOK'
<1>1. /\ UNCHANGED <<site, polling, targets, scope, silent, timedOut, lostReplies, lookups>>
      /\ stage' = "silent" /\ dialed' = dialed \cup silent
  BY DEF CheckNamed
<1> DEFINE Shown(h) == IF AccessTo(h) THEN Found(h, site.hosts[h].snmp)
                       ELSE WithoutSNMP(h, targets[h].community, site.hosts[h].page # "none")
<1>2. found' = found \cup {Shown(h) : h \in {k \in silent : site.hosts[k].up}}
  BY DEF CheckNamed
<1>3. ASSUME NEW h \in silent PROVE Shown(h) \in Known
  <2>1. h \in DOMAIN targets /\ targets[h].community \in Communities
    BY DEF DiscoveryTypeOK, Target
  <2>2. AccessTo(h) => site.hosts[h].snmp \in Communities
    BY <2>1, DiscoveryAssumption DEF AccessTo
  <2>3. AccessTo(h) => Found(h, site.hosts[h].snmp) \in Known
    BY <2>1, <2>2 DEF Found, Known
  <2>4. WithoutSNMP(h, targets[h].community, site.hosts[h].page # "none") \in Known
    BY <2>1 DEF WithoutSNMP, Known
  <2> QED BY <2>3, <2>4
<1> HIDE DEF Shown
<1>4. found' \subseteq Known
  BY <1>2, <1>3 DEF DiscoveryTypeOK, Known
<1>5. dialed' \subseteq Addresses
  BY <1>1 DEF DiscoveryTypeOK
<1>6. lostReplies' \in 0 .. MaxLostReplies /\ silent' \cup timedOut' \subseteq DOMAIN targets
      /\ silent' \cap timedOut' = {}
  BY <1>1 DEF DiscoveryTypeOK
<1> QED BY <1>1, <1>4, <1>5, <1>6, WithinSweep

LEMMA CheckSilentTyped ==
  ASSUME DiscoveryTypeOK, CheckSilent
  PROVE  DiscoveryTypeOK'
<1>1. UNCHANGED <<site, polling, targets, scope, silent, timedOut, lostReplies, lookups>> /\ stage' = "merge"
  BY DEF CheckSilent
<1>2. PICK candidates \in SUBSET timedOut :
        /\ dialed' = dialed \cup candidates
        /\ found' = found \cup {WithoutSNMP(h, Default, TRUE) :
                                  h \in {k \in candidates : site.hosts[k].up /\ site.hosts[k].page = "office"}}
  BY DEF CheckSilent, kSubset
<1>3. \A h \in timedOut : WithoutSNMP(h, Default, TRUE) \in Known
  BY DiscoveryAssumption DEF DiscoveryTypeOK, WithoutSNMP, Known
<1>4. found' \subseteq Known
  BY <1>2, <1>3 DEF DiscoveryTypeOK, Known
<1>5. dialed' \subseteq Addresses
  BY <1>2 DEF DiscoveryTypeOK
<1>6. lostReplies' \in 0 .. MaxLostReplies /\ silent' \cup timedOut' \subseteq DOMAIN targets
      /\ silent' \cap timedOut' = {}
  BY <1>1 DEF DiscoveryTypeOK
<1> QED BY <1>1, <1>4, <1>5, <1>6, WithinSweep

LEMMA EndSweepTyped ==
  ASSUME DiscoveryTypeOK, EndSweep
  PROVE  /\ DiscoveryTypeOK'
         /\ DOMAIN polling \subseteq DOMAIN polling'
         /\ \A h \in DOMAIN polling : ~polling[h].noSNMP => polling'[h] = polling[h]
<1> DEFINE added == {d \in found : d.host \notin DOMAIN polling \/ Replaces(d)}
           New(h) == CHOOSE d \in added : d.host = h
           AsPolled(d) == [community |-> d.community, noSNMP |-> d.noSNMP, model |-> d.model]
<1>1. polling' = [h \in DOMAIN polling \cup {d.host : d \in added} |->
                    IF \E d \in added : d.host = h THEN AsPolled(New(h)) ELSE polling[h]]
  BY DEF EndSweep
<1>2. /\ stage' = "idle" /\ DOMAIN targets' = {} /\ found' = {} /\ silent' = {} /\ timedOut' = {}
      /\ UNCHANGED <<site, scope, dialed, lostReplies, lookups>>
  BY DEF EndSweep
<1>3. \A d \in added : d.host \in Addresses /\ AsPolled(d) \in Device
  BY DEF DiscoveryTypeOK, Device
<1>4. \A h : (\E d \in added : d.host = h) => New(h) \in added
  OBVIOUS
<1>5. ASSUME NEW h \in DOMAIN polling, ~polling[h].noSNMP, NEW d \in added, d.host = h PROVE FALSE
  BY <1>5 DEF Replaces
<1> HIDE DEF added, New, AsPolled
<1>6. DOMAIN polling' = DOMAIN polling \cup {d.host : d \in added}
  BY <1>1
<1>7. DOMAIN polling' \subseteq Addresses
  BY <1>3, <1>6 DEF DiscoveryTypeOK
<1>8. ASSUME NEW h \in DOMAIN polling' PROVE polling'[h] \in Device
  <2>1. CASE \E d \in added : d.host = h
    BY <1>1, <1>3, <1>4, <1>6, <2>1
  <2>2. CASE ~ \E d \in added : d.host = h
    BY <1>1, <1>6, <2>2 DEF DiscoveryTypeOK
  <2> QED BY <2>1, <2>2
<1>9. DiscoveryTypeOK'
  BY <1>2, <1>7, <1>8 DEF DiscoveryTypeOK, Addresses
<1>10. \A h \in DOMAIN polling : ~polling[h].noSNMP => polling'[h] = polling[h]
  BY <1>1, <1>5
<1> QED BY <1>6, <1>9, <1>10

LEMMA DiscoveryStepTyped ==
  DiscoveryTypeOK /\ NoneMissed /\ [DiscoveryNext]_dvars => DiscoveryTypeOK' /\ NoneMissed'
<1> SUFFICES ASSUME DiscoveryTypeOK, NoneMissed, [DiscoveryNext]_dvars
             PROVE  DiscoveryTypeOK' /\ NoneMissed'
  OBVIOUS
<1>1. ASSUME NEW failed \in SUBSET Lookups, BeginSweep(failed) PROVE DiscoveryTypeOK' /\ NoneMissed'
  <2>1. NoneMissed'
    BY <1>1 DEF BeginSweep, NoneMissed
  <2> QED BY <1>1, <2>1, BeginSweepTyped
<1>2. ASSUME NEW n \in 0 .. MaxLostReplies - lostReplies,
             NEW missed \in kSubset(n, DOMAIN targets), NEW failed \in SUBSET missed,
             ProbeAll(missed, failed)
      PROVE  DiscoveryTypeOK' /\ NoneMissed'
  <2>1. NoneMissed'
    BY <1>2 DEF ProbeAll, NoneMissed
  <2> QED BY <1>2, <2>1, ProbeAllTyped
<1>3. CASE CheckNamed
  BY <1>3, CheckNamedTyped DEF CheckNamed, NoneMissed
<1>4. CASE CheckSilent
  BY <1>4, CheckSilentTyped DEF CheckSilent, NoneMissed
<1>5. CASE EndSweep
  BY <1>5, EndSweepTyped DEF EndSweep, NoneMissed
<1>6. CASE UNCHANGED dvars
  BY <1>6 DEF dvars, DiscoveryTypeOK, NoneMissed, Addresses
<1> QED BY <1>1, <1>2, <1>3, <1>4, <1>5, <1>6 DEF DiscoveryNext

\* On the networks of the check, an address is close by.
LEMMA ScopeIsNear ==
  ASSUME site \in Sites, DOMAIN polling \subseteq Addresses, ScopeNear, NEW n \in scope, NEW h \in n
  PROVE  \/ \E m \in OwnNets \cup site.panel \cup site.adNets \cup site.routes :
              h \in m /\ (m \in OwnNets \/ Cardinality(m) <= SmallNet)
         \/ h \in Private /\ Slash24(h) \cap (Named \cup DOMAIN polling) # {}
<1>1. CASE n \in OwnNets \/ n \in SmallNets
  BY <1>1 DEF SmallNets
<1>2. CASE n \in NearHints
  <2>1. PICK k \in Private \cap (Named \cup DOMAIN polling) : n = Slash24(k)
    BY <1>2 DEF NearHints
  <2>2. k \in Addresses /\ k \in Private
    BY <2>1, OnSite
  <2>3. h \in Private /\ h \in Addresses /\ h \div BlockSize = k \div BlockSize
    BY <2>1, <2>2, OnSite DEF Slash24
  <2>4. k \in Slash24(h)
    BY <2>2, <2>3 DEF Slash24
  <2> QED BY <2>1, <2>3, <2>4
<1> QED BY <1>1, <1>2 DEF ScopeNear

\* What stays pointed to while a sweep goes on: the targets and the scope stay.
LEMMA StaysPointedTo ==
  ASSUME DiscoveryTypeOK, PointedTo, UNCHANGED <<site, polling, targets, scope>>,
         silent' \subseteq Named,
         NEW more, dialed' \subseteq dialed \cup more,
         \A h \in more : h \in Named \/ \E n \in scope : h \in n
  PROVE  PointedTo'
<1>1. /\ Named' = Named /\ ConfiguredNets' = ConfiguredNets /\ OwnNets' = OwnNets
      /\ SmallNets' = SmallNets /\ NearHints' = NearHints /\ Addresses' = Addresses
      /\ \A h : Slash24(h)' = Slash24(h)
  BY DEF Named, ConfiguredNets, OwnNets, SmallNets, NearHints, Slash24, Addresses
<1> DEFINE Close(h) == \/ h \in Named
                       \/ \E m \in OwnNets \cup site.panel \cup site.adNets \cup site.routes :
                            h \in m /\ (m \in OwnNets \/ Cardinality(m) <= SmallNet)
                       \/ h \in Private /\ Slash24(h) \cap (Named \cup DOMAIN polling) # {}
<1>2. \A h \in more : Close(h)
  BY ScopeIsNear DEF DiscoveryTypeOK, PointedTo
<1>3. \A h \in dialed : Close(h)
  BY DEF PointedTo, OnlyNearDialed
<1>4. OnlyNearDialed'
  BY <1>1, <1>2, <1>3 DEF OnlyNearDialed
<1> QED BY <1>1, <1>4 DEF PointedTo, ScopeNear, NoForeignSweep

LEMMA PointedToStep ==
  DiscoveryTypeOK /\ NoneMissed /\ PointedTo /\ [DiscoveryNext]_dvars => PointedTo'
<1> SUFFICES ASSUME DiscoveryTypeOK, NoneMissed, PointedTo, [DiscoveryNext]_dvars PROVE PointedTo'
  OBVIOUS
<1>1. ASSUME NEW failed \in SUBSET Lookups, BeginSweep(failed) PROVE PointedTo'
  <2>1. UNCHANGED <<site, silent>> /\ silent = {} /\ dialed' = {}
    BY <1>1 DEF BeginSweep, NoneMissed
  <2>2. Named' = Named
    BY <2>1 DEF Named
  <2>3. OnlyNearDialed'
    BY <2>1 DEF OnlyNearDialed
  <2> QED BY <1>1, <2>1, <2>2, <2>3, BeginsNear DEF PointedTo
<1>2. ASSUME NEW missed, NEW failed, ProbeAll(missed, failed) PROVE PointedTo'
  <2>1. UNCHANGED <<site, polling, targets, scope, dialed>>
        /\ \A h \in silent' : h \in DOMAIN targets /\ targets[h].named
    BY <1>2 DEF ProbeAll
  <2>2. silent' \subseteq Named
    BY <2>1 DEF PointedTo
  <2>3. dialed' \subseteq dialed \cup silent /\ silent \subseteq Named
    BY <2>1 DEF PointedTo
  <2> QED BY <2>1, <2>2, <2>3, StaysPointedTo
<1>3. CASE CheckNamed
  <2>1. UNCHANGED <<site, polling, targets, scope, silent>> /\ dialed' = dialed \cup silent
    BY <1>3 DEF CheckNamed
  <2>2. silent \subseteq Named
    BY DEF PointedTo
  <2> QED BY <2>1, <2>2, StaysPointedTo
<1>4. CASE CheckSilent
  <2>1. UNCHANGED <<site, polling, targets, scope, silent>>
    BY <1>4 DEF CheckSilent
  <2>2. PICK candidates : /\ dialed' = dialed \cup candidates
                          /\ \A h \in candidates : \E n \in scope : h \in n
    BY <1>4 DEF CheckSilent, kSubset
  <2>3. silent' \subseteq Named
    BY <2>1 DEF PointedTo
  <2> QED BY <2>1, <2>2, <2>3, StaysPointedTo
<1>5. CASE EndSweep
  <2>1. /\ UNCHANGED <<site, scope, dialed>> /\ silent' = {} /\ DOMAIN targets' = {}
    BY <1>5 DEF EndSweep
  <2>2. DOMAIN polling \subseteq DOMAIN polling'
    BY <1>5, EndSweepTyped
  <2>3. /\ Named' = Named /\ OwnNets' = OwnNets /\ SmallNets' = SmallNets /\ Addresses' = Addresses
        /\ \A h : Slash24(h)' = Slash24(h)
    BY <2>1 DEF Named, OwnNets, SmallNets, Slash24, Addresses
  <2>4. NearHints \subseteq NearHints'
    BY <2>2, <2>3 DEF NearHints
  <2>5. ScopeNear'
    BY <2>1, <2>3, <2>4 DEF ScopeNear, PointedTo
  <2>6. OnlyNearDialed'
    BY <2>1, <2>2, <2>3 DEF OnlyNearDialed, PointedTo
  <2> QED BY <2>1, <2>5, <2>6 DEF PointedTo, NoForeignSweep
<1>6. CASE UNCHANGED dvars
  <2>1. UNCHANGED <<site, polling, targets, scope, silent, dialed>>
    BY <1>6 DEF dvars
  <2>2. dialed' \subseteq dialed \cup silent /\ silent \subseteq Named
    BY <2>1 DEF PointedTo
  <2>3. silent' \subseteq Named
    BY <2>1 DEF PointedTo
  <2> QED BY <2>1, <2>2, <2>3, StaysPointedTo
<1> QED BY <1>1, <1>2, <1>3, <1>4, <1>5, <1>6 DEF DiscoveryNext

(* A sweep's targets, its findings and what is polled keep their shape.     *)
THEOREM DiscoveryTyped == DiscoverySpec => []DiscoveryTypeOK
BY DiscoveryInitTyped, DiscoveryStepTyped, PTL DEF DiscoverySpec

(* "A hint resolving to a public address must never turn into a sweep of    *)
(* someone else's network": on any site, whatever replies and lookups are   *)
(* lost and whatever earlier sweeps found, a sweep probes and dials only    *)
(* what a source named or configured and the private networks close by.     *)
THEOREM SweepsStayNear == DiscoverySpec => []ProbesStayNear
<1>1. PointedTo => ProbesStayNear
  BY DEF PointedTo, ProbesStayNear
<1> QED BY <1>1, DiscoveryInitTyped, DiscoveryStepTyped, PointedToStep, PTL DEF DiscoverySpec

(* MergeDevices: a printer that is polled over SNMP stays as it is, however *)
(* many later sweeps miss its reply and take it for one without SNMP.       *)
THEOREM SNMPIsKept == DiscoverySpec => SNMPNotForgotten
<1>1. DiscoveryTypeOK /\ [DiscoveryNext]_dvars =>
        [\A h \in DOMAIN polling :
           h \in DOMAIN polling' /\ (~polling[h].noSNMP => polling'[h] = polling[h])]_polling
  <2> SUFFICES ASSUME DiscoveryTypeOK, [DiscoveryNext]_dvars, polling' # polling
               PROVE  \A h \in DOMAIN polling :
                        h \in DOMAIN polling' /\ (~polling[h].noSNMP => polling'[h] = polling[h])
    OBVIOUS
  <2>1. EndSweep
    BY DEF DiscoveryNext, BeginSweep, ProbeAll, CheckNamed, CheckSilent, dvars
  <2> QED BY <2>1, EndSweepTyped
<1> QED BY <1>1, DiscoveryTyped, PTL DEF DiscoverySpec, SNMPNotForgotten
-----------------------------------------------------------------------------
(* All of the parts together: each, seen alone, takes its own steps or      *)
(* rests.                                                                   *)
LEMMA CommandPart == AgentSpec => CommandSpec
<1>1. AgentInit => Init
  BY DEF AgentInit
<1>2. [AgentNext]_agentVarsAll => [CommandNext]_commandVars
  BY DEF AgentNext, agentVarsAll
<1> QED BY <1>1, <1>2, PTL DEF AgentSpec, CommandSpec

LEMMA LoopPart == AgentSpec => AgentLoopSpec
<1>1. AgentInit => AgentLoopInit
  BY DEF AgentInit
<1>2. [AgentNext]_agentVarsAll => [AgentLoopNext]_agentLoopVars
  BY DEF AgentNext, agentVarsAll
<1> QED BY <1>1, <1>2, PTL DEF AgentSpec, AgentLoopSpec

LEMMA DiscoveryPart == AgentSpec => DiscoverySpec
<1>1. AgentInit => DiscoveryInit
  BY DEF AgentInit
<1>2. [AgentNext]_agentVarsAll => [DiscoveryNext]_dvars
  BY DEF AgentNext, agentVarsAll
<1> QED BY <1>1, <1>2, PTL DEF AgentSpec, DiscoverySpec

LEMMA LogPart == AgentSpec => AgentLogSpec
<1>1. AgentInit => AgentLogInit
  BY DEF AgentInit
<1>2. [AgentNext]_agentVarsAll => [AgentLogNext]_lvars
  BY DEF AgentNext, agentVarsAll
<1> QED BY <1>1, <1>2, PTL DEF AgentSpec, AgentLogSpec

(* What an installed agent never does: the types of all four; no sweep goes *)
(* where nothing pointed it to; a printer that was announced, or polled     *)
(* over SNMP, is not forgotten, and no log is pruned early.                 *)
THEOREM AgentHolds ==
  AgentSpec => /\ [](AgentTypesOK /\ ProbesStayNear /\ AnnouncedStay)
               /\ SNMPNotForgotten
               /\ LogsKept
<1>1. CommandTypeOK /\ AgentLoopTypeOK /\ DiscoveryTypeOK /\ AgentLogTypeOK => AgentTypesOK
  BY DEF AgentTypesOK
<1> QED BY <1>1, CommandPart, LoopPart, DiscoveryPart, LogPart, CommandsTyped, LoopTyped,
           DiscoveryTyped, LogTyped, SweepsStayNear, AnnouncedAreKept, SNMPIsKept, LogsAreKept, PTL
=============================================================================
