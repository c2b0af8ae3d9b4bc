-------------------------------- MODULE MCDesk --------------------------------
(* What lands on the desk of the panel's staff, for one TLC run:            *)
(* notifications, tickets and the devices that agents report.  They share   *)
(* no state: "subject" says which one a behavior is about, and the others   *)
(* rest in their initial state.                                             *)
EXTENDS MCNotifications, Tickets, MCFleet

CONSTANTS
  s1, s2, c1,
  MaxRequests  \* bound on the updates and comments of a ticket, together

VARIABLE subject

deskVars == <<subject, notificationsVars, ticketsVars, fvars>>

\* Two priorities, one promised earlier than the other.
MCHours == [p \in {"HIGH", "LOW"} |-> IF p = "HIGH" THEN 1 ELSE 2]

FewRequests ==
  updates + Cardinality({c \in CommentIds : comments[c].pc # "none"}) <= MaxRequests

DeskSymmetry == Permutations({s1, s2}) \cup Permutations({u1, u2})

DeskInit ==
  /\ subject \in {"notifications", "tickets", "fleet"}
  /\ NotificationsInit /\ TicketsInit /\ FleetInit
  /\ subject # "fleet" => place = [p \in Printers |-> Gone]

DeskNext ==
  \/ /\ subject = "notifications" /\ NotificationsNext
     /\ UNCHANGED <<subject, ticketsVars, fvars>>
  \/ /\ subject = "tickets" /\ TicketsNext /\ FewRequests'
     /\ UNCHANGED <<subject, notificationsVars, fvars>>
  \/ /\ subject = "fleet" /\ FleetNext
     /\ UNCHANGED <<subject, notificationsVars, ticketsVars>>
DeskSpec == DeskInit /\ [][DeskNext]_deskVars

(* The type invariants of the parts.                                        *)
DeskTypesOK == NotificationsTypeOK /\ TicketsTypeOK /\ FleetTypeOK
=============================================================================
