---------------------------- MODULE Notifications ----------------------------
(* One tenant's notifications (src/api/src/notifications/notifications.     *)
(* service.ts): syncs of the job and of users at once, each query a step of *)
(* its own; a row per issue, keyed by its dedupeKey; a digest by e-mail and *)
(* a ticket for what a sync itself created.                                 *)
EXTENDS Integers

CONSTANTS
  Issues,       \* what collectCurrentAlerts can report, by dedupeKey
  StaffTypes,   \* those of a type the tenant's digest includes
  ClientTypes,  \* those the customer concerned is told about
  TicketTypes,  \* those of a type that opens a ticket, of some customer
  Users,        \* users who may press "Atualizar agora" at once
  Cron,         \* the job of 7AM
  MaxSyncs,     \* bound on the syncs ever started
  MaxEvents,    \* bound on the times issues come or go
  MaxFailures,  \* bound on the failed queries and restarts
  MaxSwitches   \* bound on the changes of the preferences

ASSUME NotificationsAssumption ==
  /\ StaffTypes \subseteq Issues /\ ClientTypes \subseteq Issues
  /\ TicketTypes \subseteq Issues
  /\ Cron \notin Users
  /\ MaxSyncs \in Nat /\ MaxEvents \in Nat /\ MaxFailures \in Nat /\ MaxSwitches \in Nat

VARIABLES
  detected,    \* the issues the other services would report now
  rows,        \* issue -> its row; resolvedAt is split by who wrote it
  sync,        \* sync[s]: where s stands, what it read and what it created
  staffMail,   \* digests to staff that named the issue
  clientMail,  \* digests to the customer that named it
  tickets,     \* tickets opened about it
  prefs,       \* notifyEmailEnabled and autoTicketEnabled
  count        \* what was bounded so far; failures count lost races too

data == <<rows, staffMail, clientMail, tickets>>
notificationsVars == <<detected, data, sync, prefs, count>>

Syncs == Users \cup {Cron}
RowStatus == {"none", "open", "resolved", "autoResolved"}
Resolved == {"resolved", "autoResolved"}
SyncState ==
  [pc : {"idle", "existing", "upsert", "digest", "clients", "automate", "open"},
   current : SUBSET Issues, known : SUBSET Issues, open : SUBSET Issues,
   todo : SUBSET Issues, new : SUBSET Issues]
Idle == [pc |-> "idle", current |-> {}, known |-> {}, open |-> {}, todo |-> {}, new |-> {}]
Counted == {"syncs", "events", "failures", "switches"}
Counts(what) == count' = [count EXCEPT ![what] = @ + 1]

NotificationsInit ==
  /\ detected = {}
  /\ rows = [k \in Issues |-> "none"]
  /\ sync = [s \in Syncs |-> Idle]
  /\ staffMail = [k \in Issues |-> 0]
  /\ clientMail = [k \in Issues |-> 0]
  /\ tickets = [k \in Issues |-> 0]
  /\ prefs = [email |-> TRUE, tickets |-> TRUE]
  /\ count = [c \in Counted |-> 0]

\* The next query of s, or the end of the sync.
Goto(s, next) == sync' = [sync EXCEPT ![s].pc = next]
End(s) == sync' = [sync EXCEPT ![s] = Idle]
-----------------------------------------------------------------------------
\* collectCurrentAlerts: what the six services report.  No item depends on
\* two of them, so one moment stands for their queries.
Collect(s) ==
  /\ sync[s].pc = "idle"
  /\ count["syncs"] < MaxSyncs
  /\ sync' = [sync EXCEPT ![s] = [Idle EXCEPT !.pc = "existing", !.current = detected]]
  /\ Counts("syncs")
  /\ UNCHANGED <<detected, data, prefs>>

\* findMany of the rows.  An item whose row is open only has its text
\* refreshed and one whose row is resolved is left alone: what is left to do
\* is to create the others.
Missing(s) == {k \in sync[s].current : rows[k] = "none"}
ReadExisting(s) ==
  /\ sync[s].pc = "existing"
  /\ sync' = [sync EXCEPT ![s] =
       [@ EXCEPT !.pc = "upsert", !.todo = Missing(s),
                 !.known = {k \in Issues : rows[k] # "none"},
                 !.open = {k \in Issues : rows[k] = "open"}]]
  /\ UNCHANGED <<detected, data, prefs, count>>

\* Mutant: the row of another sync counts as created by this one.
CreateRow_Upsert(s, k) ==
  /\ sync[s].pc = "upsert" /\ k \in sync[s].todo
  /\ rows' = [rows EXCEPT ![k] = IF @ = "none" THEN "open" ELSE @]
  /\ sync' = [sync EXCEPT ![s].todo = @ \ {k}, ![s].new = @ \cup {k}]
  /\ UNCHANGED count
  /\ UNCHANGED <<detected, staffMail, clientMail, tickets, prefs>>

\* create: the unique key (tenantId, dedupeKey) refuses a row another sync
\* created meanwhile, and the error ends this one.
CreateRow(s, k) ==
  /\ sync[s].pc = "upsert" /\ k \in sync[s].todo
  /\ \/ /\ rows[k] = "none"
        /\ rows' = [rows EXCEPT ![k] = "open"]
        /\ sync' = [sync EXCEPT ![s].todo = @ \ {k}, ![s].new = @ \cup {k}]
        /\ UNCHANGED count
     \/ /\ rows[k] # "none"
        /\ End(s) /\ Counts("failures")
        /\ UNCHANGED rows
  /\ UNCHANGED <<detected, staffMail, clientMail, tickets, prefs>>

\* Mutant: a ticket too waits for the nightly sync.
AfterRows_CronOnly(s) == IF sync[s].new # {} /\ s = Cron THEN "digest" ELSE "idle"

\* What follows the rows: the digest of the job's own sync, then the tickets.
AfterRows(s) ==
  CASE sync[s].new = {} -> "idle"
    [] sync[s].new # {} /\ s = Cron -> "digest"
    [] sync[s].new # {} /\ s # Cron -> "automate"

\* updateMany of the rows that were open and whose issue was not reported.
AutoResolve(s) ==
  /\ sync[s].pc = "upsert" /\ sync[s].todo = {}
  /\ rows' = [k \in Issues |->
       IF k \in sync[s].open \ sync[s].current /\ rows[k] = "open"
       THEN "autoResolved" ELSE rows[k]]
  /\ IF AfterRows(s) = "idle" THEN End(s) ELSE Goto(s, AfterRows(s))
  /\ UNCHANGED <<detected, staffMail, clientMail, tickets, prefs, count>>

\* sendDigestEmail: one message to the staff, one to each customer; a
\* message that is not delivered is logged and counts as sent.
SendDigest(s) ==
  /\ sync[s].pc = "digest"
  /\ \/ /\ prefs.email
        /\ staffMail' = [k \in Issues |->
             staffMail[k] + (IF k \in sync[s].new \cap StaffTypes THEN 1 ELSE 0)]
        /\ Goto(s, "clients")
     \/ /\ ~prefs.email
        /\ Goto(s, "automate")
        /\ UNCHANGED staffMail
  /\ UNCHANGED <<detected, rows, clientMail, tickets, prefs, count>>
SendToClients(s) ==
  /\ sync[s].pc = "clients"
  /\ clientMail' = [k \in Issues |->
       clientMail[k] + (IF k \in sync[s].new \cap ClientTypes THEN 1 ELSE 0)]
  /\ Goto(s, "automate")
  /\ UNCHANGED <<detected, rows, staffMail, tickets, prefs, count>>

\* autoCreateTickets: the preferences, then one ticket after the other; one
\* that fails is logged and the next is tried.
ReadAutomation(s) ==
  /\ sync[s].pc = "automate"
  /\ \/ /\ prefs.tickets
        /\ sync' = [sync EXCEPT ![s].pc = "open", ![s].todo = sync[s].new \cap TicketTypes]
     \/ /\ ~prefs.tickets
        /\ End(s)
  /\ UNCHANGED <<detected, data, prefs, count>>
OpenTicket(s, k) ==
  /\ sync[s].pc = "open" /\ k \in sync[s].todo
  /\ \/ tickets' = [tickets EXCEPT ![k] = @ + 1] /\ UNCHANGED count
     \/ count["failures"] < MaxFailures /\ Counts("failures") /\ UNCHANGED tickets
  /\ sync' = [sync EXCEPT ![s].todo = @ \ {k}]
  /\ UNCHANGED <<detected, rows, staffMail, clientMail, prefs>>
TicketsDone(s) ==
  /\ sync[s].pc = "open" /\ sync[s].todo = {}
  /\ End(s)
  /\ UNCHANGED <<detected, data, prefs, count>>

\* A query throws, or the process stops: syncAllTenants logs it and no later
\* sync takes up what this one left.
Fail(s) ==
  /\ sync[s].pc # "idle"
  /\ count["failures"] < MaxFailures
  /\ End(s) /\ Counts("failures")
  /\ UNCHANGED <<detected, data, prefs>>
-----------------------------------------------------------------------------
\* resolve: reads the row, then writes resolvedAt by its id, whatever it holds.
Resolve(k) ==
  /\ rows[k] \in {"open", "autoResolved"}
  /\ rows' = [rows EXCEPT ![k] = "resolved"]
  /\ UNCHANGED <<detected, sync, staffMail, clientMail, tickets, prefs, count>>

\* The two master switches.
SetPreferences ==
  /\ count["switches"] < MaxSwitches
  /\ \E switch \in {"email", "tickets"} : prefs' = [prefs EXCEPT ![switch] = ~@]
  /\ Counts("switches")
  /\ UNCHANGED <<detected, data, sync>>

\* An invoice falls due or is paid, a printer jams or is cleared, ...
IssueChanges(k) ==
  /\ count["events"] < MaxEvents
  /\ detected' = IF k \in detected THEN detected \ {k} ELSE detected \cup {k}
  /\ Counts("events")
  /\ UNCHANGED <<data, sync, prefs>>

SyncStep(s) ==
  \/ Collect(s) \/ ReadExisting(s) \/ \E k \in Issues : CreateRow(s, k)
  \/ AutoResolve(s) \/ SendDigest(s) \/ SendToClients(s)
  \/ ReadAutomation(s) \/ \E k \in Issues : OpenTicket(s, k)
  \/ TicketsDone(s) \/ Fail(s)

NotificationsNext ==
  \/ \E s \in Syncs : SyncStep(s)
  \/ \E k \in Issues : Resolve(k) \/ IssueChanges(k)
  \/ SetPreferences

NotificationsSpec == NotificationsInit /\ [][NotificationsNext]_notificationsVars
-----------------------------------------------------------------------------
(* Type correctness: rows and syncs keep their shape, and a sync has rows   *)
(* for what it created and none it knew of for what it is still to create.  *)
NotificationsTypeOK ==
  /\ detected \subseteq Issues
  /\ rows \in [Issues -> RowStatus]
  /\ sync \in [Syncs -> SyncState]
  /\ staffMail \in [Issues -> Nat] /\ clientMail \in [Issues -> Nat]
  /\ tickets \in [Issues -> Nat]
  /\ prefs \in [email : BOOLEAN, tickets : BOOLEAN]
  /\ count \in [Counted -> Nat]
  /\ \A s \in Syncs :
       /\ \A k \in sync[s].new : rows[k] # "none"
       /\ sync[s].pc = "upsert" => sync[s].todo \cap sync[s].known = {}

(* "this can never double-open a ticket for the same ongoing issue"         *)
(* (syncNotifications): however syncs of the job and of users overlap, an   *)
(* issue has at most one ticket, one digest to staff and one to its customer.*)
AnnouncedOnce ==
  \A k \in Issues : tickets[k] <= 1 /\ staffMail[k] <= 1 /\ clientMail[k] <= 1

(* "delaying it until the next cron run would defeat the point": any sync   *)
(* opens the tickets of the rows it created.  An issue with a row, of a     *)
(* type that opens tickets, has its ticket once no sync is at work, unless  *)
(* a sync failed or lost a race, or someone changed the preferences.        *)
TicketsFollowRows ==
  \A k \in TicketTypes :
    (/\ rows[k] # "none" /\ count["failures"] = 0 /\ count["switches"] = 0
     /\ \A s \in Syncs : k \notin sync[s].new) => tickets[k] = 1

(* "resolved rows are left alone ... someone already dealt with it"         *)
(* (syncNotifications): a sync that passes over an issue it was told of     *)
(* finds the row someone resolved, not one the sync resolved by itself.     *)
SilencedOnlyByStaff ==
  \A s \in Syncs : sync[s].pc = "upsert" =>
    \A k \in (sync[s].current \cap sync[s].known) \ sync[s].open : rows[k] = "resolved"
=============================================================================
