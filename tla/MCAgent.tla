------------------------------- MODULE MCAgent -------------------------------
(* What an installed agent must do in the end, for one TLC run: the sweep   *)
(* that a remote command asks for, the poll loop and its device list, the   *)
(* search for printers on a network and the log uploads.  They share no     *)
(* state here: "subject" says which one a behavior is about, and the others *)
(* rest in their initial state.  Fairness is that of each module, for the   *)
(* subject only.                                                            *)
EXTENDS AgentCommand, AgentLoop, MCDiscovery, AgentLog

VARIABLE subject

agentVarsAll == <<subject, commandVars, agentLoopVars, dvars, lvars>>

On(who) == subject = who

AgentInit ==
  /\ subject \in {"command", "loop", "discovery", "log"}
  /\ Init /\ AgentLoopInit /\ DiscoveryInit /\ AgentLogInit
  /\ ~On("loop") => part = "early"
  /\ ~On("discovery") => site = CHOOSE s \in Sites : TRUE

AgentNext ==
  \/ On("command") /\ CommandNext /\ UNCHANGED <<subject, agentLoopVars, dvars, lvars>>
  \/ On("loop") /\ AgentLoopNext /\ UNCHANGED <<subject, commandVars, dvars, lvars>>
  \/ On("discovery") /\ DiscoveryNext /\ UNCHANGED <<subject, commandVars, agentLoopVars, lvars>>
  \/ On("log") /\ AgentLogNext /\ UNCHANGED <<subject, commandVars, agentLoopVars, dvars>>

CommandFair ==
  /\ \A k \in Slots : WF_commandVars(On("command") /\ (AckRead(k) \/ AckWrite(k)))
  /\ WF_commandVars(On("command") /\ LoopStep) /\ WF_commandVars(On("command") /\ SweepStep)
LoopFair ==
  /\ WF_agentLoopVars(On("loop") /\ StartUp)
  /\ WF_agentLoopVars(On("loop") /\ (PollTick \/ TakeCount))
  /\ WF_agentLoopVars(On("loop") /\ SearchStep)
  /\ WF_agentLoopVars(On("loop") /\ (EndCycle \/ EndExtraCycle))
  /\ SF_agentLoopVars(On("loop") /\ part = "late" /\ PollTick)
  /\ SF_agentLoopVars(On("loop") /\ part = "late" /\ EndCycle)
  /\ WF_agentLoopVars(On("loop") /\ Later)
DiscoveryFairly == WF_dvars(On("discovery") /\ DiscoveryNext)
LogFair == WF_lvars(On("log") /\ ControlStep)
AgentSpec ==
  /\ AgentInit /\ [][AgentNext]_agentVarsAll
  /\ CommandFair /\ LoopFair /\ DiscoveryFairly /\ LogFair

(* The type invariants of the parts.                                        *)
AgentTypesOK == CommandTypeOK /\ AgentLoopTypeOK /\ DiscoveryTypeOK /\ AgentLogTypeOK

(* AgentLoop's SelfHeals, of an agent whose loop runs (service.go, run).    *)
LoopSelfHeals == \A p \in Answering : <>[](On("loop") => devices[p] = BySNMP)
(* Discovery's EveryPrinterPolled, of an agent that sweeps, and its         *)
(* SNMPNotForgotten (discovery.go, Run; config.go, MergeDevices).           *)
PrintersKept == SNMPNotForgotten /\ <>[](On("discovery") => AllPolled)
=============================================================================
