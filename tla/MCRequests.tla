----------------------------- MODULE MCRequests -----------------------------
(* What staff ask for, for one TLC run: two requests about one customer's   *)
(* invoices at once beside the nightly job ("invoices"), or one of them and *)
(* a change of its contract ("contracts"), and commands to an agent whose   *)
(* answers get lost ("commands").  Invoices and commands share no state:    *)
(* "subject" says which a behavior is about, the other rests.               *)
EXTENDS MCInvoicing, AgentCommand

VARIABLE subject

RequestsInit == subject \in {"invoices", "contracts", "commands"} /\ InvoicingInit /\ Init
RequestsNext ==
  \/ subject = "invoices" /\ Next /\ UNCHANGED <<contractVars, subject, commandVars>>
  \/ /\ subject = "contracts" /\ Next /\ UNCHANGED <<subject, commandVars>>
     /\ \A v, w \in Staff : v # w => Idle(v)' \/ Idle(w)'
  \/ subject = "commands" /\ CommandNext /\ UNCHANGED <<subject, vars>>
RequestsSpec == RequestsInit /\ [][RequestsNext]_<<subject, vars, commandVars>>

\* Staff requests are alike, and so are the ack calls of an agent.
RequestsSymmetry == Permutations(Staff) \cup Permutations(Slots)
=============================================================================
