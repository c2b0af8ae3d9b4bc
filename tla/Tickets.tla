------------------------------- MODULE Tickets -------------------------------
(* One ticket of one customer (api/src/tickets, common/sla.util.ts): the    *)
(* deadline it promises, its status, the comments of both sides with their  *)
(* files, and who is told.  A request reads the row, works on what it read  *)
(* and writes by id, so requests of several people cross.                   *)
EXTENDS Integers, FiniteSets

CONSTANTS
  Staff, Clients,  \* tenant-wide users who see tickets; the customer's users
  Hours,           \* resolveSlaHours: the promise for each priority
  MaxHour,         \* bound on the clock
  MaxComments,     \* bound on comments
  MaxUpdates,      \* bound on updates
  MaxFileFailures  \* bound on files and their rows that fail

VARIABLES
  ticket,      \* the row
  hour,        \* the clock
  active,      \* staff that are not revoked
  editing,     \* each staff member's update between its read and its write
  comments,    \* the thread: the ticket's own text and the rows of
               \* ticket_comments, each with its request's progress
  files,       \* texts of the thread whose file is on disk
  told,        \* for each comment, whom an email went to
  promised,    \* when the deadline was last promised
  crossed,     \* the status was written by an update that had read the ticket
               \* resolved, and over one that another had reopened since
  updates, fileFailures

ticketsVars ==
  <<ticket, hour, active, editing, comments, files, told, promised, crossed, updates, fileFailures>>

Nobody == "nobody"       \* no creator (opened by the system), no assignee
Never == -1              \* a time that is null
Priorities == DOMAIN Hours
Settled(status) == status \in {"RESOLVED", "CLOSED"}
Statuses == {"OPEN", "IN_PROGRESS", "RESOLVED", "CLOSED"}
CommentIds == 1 .. MaxComments
Own == 0                 \* the ticket's own text and its file
Texts == {Own} \cup CommentIds

ASSUME TicketsAssumption ==
  /\ Nobody \notin Staff \cup Clients /\ Staff \cap Clients = {}
  /\ Priorities # {} /\ \A p \in Priorities : Hours[p] \in Nat \ {0}
  /\ {MaxHour, MaxComments, MaxUpdates, MaxFileFailures} \subseteq Nat

NoTicket == [status |-> "none", creator |-> Nobody, assignee |-> Nobody,
             priority |-> CHOOSE p \in Priorities : TRUE,
             due |-> Never, resolved |-> Never, closed |-> Never]
NoEdit == [pc |-> "idle", resolved |-> Never, priority |-> NoTicket.priority, reopened |-> FALSE]
NoComment == [pc |-> "none", author |-> Nobody, internal |-> FALSE, file |-> "none",
              creator |-> Nobody, assignee |-> Nobody]

TicketsInit ==
  /\ ticket = NoTicket /\ hour = 0 /\ active = Staff
  /\ editing = [s \in Staff |-> NoEdit]
  /\ comments = [c \in Texts |-> NoComment]
  /\ files = {} /\ told = [c \in Texts |-> {}]
  /\ promised = 0 /\ crossed = FALSE
  /\ updates = 0 /\ fileFailures = 0

-----------------------------------------------------------------------------
\* create, and createAutomated for a ticket of nobody's, which has no file;
\* the file is saved after the row.
CreateTicket(creator, p, file) ==
  /\ ticket.status = "none" /\ creator \in active \cup Clients \cup {Nobody}
  /\ file => creator # Nobody
  /\ ticket' = [NoTicket EXCEPT !.status = "OPEN", !.creator = creator, !.priority = p,
                                !.due = hour + Hours[p]]
  /\ comments' = [comments EXCEPT ![Own] =
       [NoComment EXCEPT !.pc = IF file THEN "file" ELSE "done", !.author = creator]]
  /\ promised' = hour
  /\ UNCHANGED <<hour, active, editing, files, told, crossed, updates, fileFailures>>

\* update: the row is read, then written.
ReadTicket(s) ==
  /\ s \in active /\ ticket.status # "none" /\ editing[s].pc = "idle"
  /\ updates < MaxUpdates /\ updates' = updates + 1
  /\ editing' = [editing EXCEPT ![s] = [pc |-> "write", resolved |-> ticket.resolved,
                                         priority |-> ticket.priority, reopened |-> FALSE]]
  /\ UNCHANGED <<ticket, hour, active, comments, files, told, promised, crossed, fileFailures>>

\* What a status writes; resolvedAt only if the row read had none.
StatusTimes(t, read, status) ==
  [t EXCEPT !.status = status,
            !.resolved = IF ~Settled(status) THEN Never
                         ELSE IF read.resolved = Never THEN hour ELSE @,
            !.closed = IF ~Settled(status) THEN Never
                       ELSE IF status = "CLOSED" THEN hour ELSE @]
\* Mutant: the deadline counts from the old one.
Repromised_FromDue(t, p) == [t EXCEPT !.priority = p, !.due = @ + Hours[p]]
\* A new priority promises a new deadline from now on.
Repromised(t, p) == [t EXCEPT !.priority = p, !.due = hour + Hours[p]]
Write(s, row) ==
  /\ editing[s].pc = "write"
  /\ ticket' = row
  /\ editing' = [r \in Staff |->
       IF r = s \/ editing[r].pc = "idle" THEN NoEdit
       ELSE IF ticket.resolved # Never /\ row.resolved = Never
            THEN [editing[r] EXCEPT !.reopened = TRUE]
            ELSE editing[r]]
WriteStatusOf(s, status) ==
  /\ Write(s, StatusTimes(ticket, editing[s], status))
  /\ crossed' = (editing[s].resolved # Never /\ editing[s].reopened)
  /\ UNCHANGED <<hour, active, comments, files, told, promised, updates, fileFailures>>
WritePriority(s, p) ==
  /\ IF p # editing[s].priority
     THEN Write(s, Repromised(ticket, p)) /\ promised' = hour
     ELSE Write(s, ticket) /\ UNCHANGED promised
  /\ UNCHANGED <<hour, active, comments, files, told, crossed, updates, fileFailures>>
\* The assignee is active when it is looked up; the mail to it is not modelled.
WriteAssignee(s, u) ==
  /\ u \in active \cup {Nobody}
  /\ Write(s, [ticket EXCEPT !.assignee = u])
  /\ UNCHANGED <<hour, active, comments, files, told, promised, crossed, updates, fileFailures>>
-----------------------------------------------------------------------------
\* addComment: the ticket is read, then the row, the file, the ticket's
\* updatedAt (not modelled) and the mails, each by a call of its own.
Comment(u, internal, file) ==
  /\ u \in active \cup Clients /\ ticket.status # "none"
  /\ internal => u \in Staff
  /\ \E c \in CommentIds :
       /\ comments[c].pc = "none" /\ \A d \in CommentIds : d < c => comments[d].pc # "none"
       /\ comments' = [comments EXCEPT ![c] =
            [pc |-> IF file THEN "file" ELSE "tell", author |-> u, internal |-> internal,
             file |-> "none", creator |-> ticket.creator, assignee |-> ticket.assignee]]
  /\ UNCHANGED <<ticket, hour, active, editing, files, told, promised, crossed, updates, fileFailures>>

FileFails == fileFailures < MaxFileFailures /\ fileFailures' = fileFailures + 1
\* saveAttachment: the file, then its row; a fault in either ends the request.
SaveFile(c) ==
  /\ comments[c].pc = "file"
  /\ \/ comments' = [comments EXCEPT ![c].pc = "attach"] /\ files' = files \cup {c}
        /\ UNCHANGED fileFailures
     \/ FileFails
        /\ comments' = [comments EXCEPT ![c].pc = "failed"] /\ UNCHANGED files
  /\ UNCHANGED <<ticket, hour, active, editing, told, promised, crossed, updates>>
AttachFile(c) ==
  /\ comments[c].pc = "attach"
  /\ \/ /\ comments' = [comments EXCEPT ![c].pc = IF c = Own THEN "done" ELSE "tell",
                                       ![c].file = "row"]
        /\ UNCHANGED fileFailures
     \/ FileFails
        /\ comments' = [comments EXCEPT ![c].pc = "failed"]
  /\ UNCHANGED <<ticket, hour, active, editing, files, told, promised, crossed, updates>>

\* Mutant: a ticket of the system's counts as somebody's.
Named_Unchecked(c) == {comments[c].creator, comments[c].assignee} \ {comments[c].author}
\* notifyNewComment: the creator and the assignee of the row that was read,
\* but the author; only if there is neither, all staff.
Named(c) == {comments[c].creator, comments[c].assignee} \ {comments[c].author, Nobody}
Recipients(c) == IF Named(c) # {} THEN Named(c) ELSE active
Told(c) == IF comments[c].internal THEN {} ELSE Recipients(c)
Tell(c) ==
  /\ comments[c].pc = "tell"
  /\ told' = [told EXCEPT ![c] = Told(c)]
  /\ comments' = [comments EXCEPT ![c].pc = "done"]
  /\ UNCHANGED <<ticket, hour, active, editing, files, promised, crossed, updates, fileFailures>>

\* UsersService: a user is revoked; what names it stays.
RevokeUser(u) ==
  /\ u \in active /\ active # {u}
  /\ active' = active \ {u}
  /\ UNCHANGED <<ticket, hour, editing, comments, files, told, promised, crossed, updates, fileFailures>>
HourPasses ==
  /\ hour < MaxHour /\ hour' = hour + 1
  /\ UNCHANGED <<ticket, active, editing, comments, files, told, promised, crossed, updates, fileFailures>>
-----------------------------------------------------------------------------
UpdateTicketStep ==
  \E s \in Staff :
    \/ ReadTicket(s)
    \/ \E status \in Statuses : WriteStatusOf(s, status)
    \/ \E p \in Priorities : WritePriority(s, p)
    \/ \E u \in Staff \cup {Nobody} : WriteAssignee(s, u)
CommentStep ==
  \/ \E u \in Staff \cup Clients, internal, file \in BOOLEAN : Comment(u, internal, file)
  \/ \E c \in Texts : SaveFile(c) \/ AttachFile(c) \/ Tell(c)
TicketsNext ==
  \/ \E u \in Staff \cup Clients \cup {Nobody}, p \in Priorities, file \in BOOLEAN :
       CreateTicket(u, p, file)
  \/ UpdateTicketStep \/ CommentStep
  \/ \E u \in Staff : RevokeUser(u)
  \/ HourPasses
TicketsSpec == TicketsInit /\ [][TicketsNext]_ticketsVars
-----------------------------------------------------------------------------
(* Type correctness.                                                        *)
TicketsTypeOK ==
  /\ ticket \in [status : Statuses \cup {"none"}, creator : Staff \cup Clients \cup {Nobody},
                 assignee : Staff \cup {Nobody}, priority : Priorities,
                 due : Nat \cup {Never}, resolved : Nat \cup {Never}, closed : Nat \cup {Never}]
  /\ hour \in 0 .. MaxHour /\ active \subseteq Staff
  /\ \A s \in Staff : editing[s].pc \in {"idle", "write"}
  /\ \A c \in Texts :
       /\ comments[c].pc \in {"none", "file", "attach", "tell", "done", "failed"}
       /\ told[c] \subseteq Staff \cup Clients
       /\ comments[c].internal => comments[c].author \in Staff
  /\ files \subseteq Texts /\ promised \in 0 .. MaxHour
  /\ crossed \in BOOLEAN /\ updates \in 0 .. MaxUpdates /\ fileFailures \in Nat

(* "A priority change re-promises a new deadline from right now" (update):  *)
(* whatever updates cross, the deadline in the row is the one promised last *)
(* and belongs to the priority in the row.                                  *)
DueFollowsPriority ==
  ticket.status # "none" => ticket.due = promised + Hours[ticket.priority]

(* "a ticket that was resolved/closed and is now back in play shouldn't     *)
(* still claim it was" (update), also when updates cross; and a settled     *)
(* ticket has the time that keeps it '"met" forever afterward'              *)
(* (isSlaBreached).  It lacks it in one case only: the update that settled  *)
(* it had read it resolved, and another reopened it before that was written.*)
TimesFollowStatus ==
  /\ ticket.status \in {"OPEN", "IN_PROGRESS"} => ticket.resolved = Never /\ ticket.closed = Never
  /\ ticket.status = "CLOSED" => ticket.closed # Never
  /\ Settled(ticket.status) => ticket.resolved # Never \/ crossed

(* The times a ticket shows belong to its priority and its status.          *)
TicketClock == DueFollowsPriority /\ TimesFollowStatus

(* An attachment that the thread offers is on disk (saveAttachment), though *)
(* a file or a row may fail to be written.                                  *)
AttachmentsStored == \A c \in Texts : comments[c].file = "row" => c \in files

(* A ticket's clock follows its priority and its updates, and what its      *)
(* thread offers is there (update, create and addComment, TicketsService).  *)
TicketsKept == TicketClock /\ AttachmentsStored

(* "so a reply never goes unnoticed just because no one's been assigned     *)
(* yet" (notifyNewComment): a public comment by one of the customer's users *)
(* on a ticket nobody is assigned to reaches a member of staff.             *)
RepliesReachStaff ==
  \A c \in CommentIds :
    comments[c].pc = "done" /\ comments[c].author \in Clients /\ comments[c].assignee = Nobody
      => told[c] \cap Staff # {}
=============================================================================
