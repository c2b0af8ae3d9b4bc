--------------------------- MODULE MCNotifications ---------------------------
(* A critical device alert, told to everyone, and a device without a        *)
(* customer, which is told to staff and opens no ticket.                    *)
EXTENDS Notifications, TLC

CONSTANTS jam, unassigned, u1, u2

MCIssues == {jam, unassigned}
MCStaffTypes == {jam, unassigned}
MCClientTypes == {jam}
MCTicketTypes == {jam}
UserSymmetry == Permutations(Users)
=============================================================================
