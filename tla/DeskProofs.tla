----------------------------- MODULE DeskProofs -----------------------------
(* Proofs about what the help desk serves. For any number of staff, clients,*)
(* comments and updates: the types of a ticket and its thread, and that its *)
(* deadline, its times and its attachments are kept, but for one crossing   *)
(* (TicketsKept). For any machines, customers, reports and retries: the     *)
(* types of the fleet, that a device flagged for review stays flagged       *)
(* (ReviewStands), and that the counters of two machines never meet in one  *)
(* row where no two customers share addresses (MachinesStayApart). For any  *)
(* number of users whose syncs overlap: the types of the notifications,     *)
(* that no issue is announced twice, and that tickets follow the rows.      *)
EXTENDS MCDesk, TLAPS

(* Tickets.                                                                 *)
Moment == Nat \cup {Never}
TicketRow ==
  [status : Statuses \cup {"none"}, creator : Staff \cup Clients \cup {Nobody},
   assignee : Staff \cup {Nobody}, priority : Priorities,
   due : Moment, resolved : Moment, closed : Moment]
EditRow == [pc : {"idle", "write"}, resolved : Moment, priority : Priorities, reopened : BOOLEAN]
CommentRow ==
  [pc : {"none", "file", "attach", "tell", "done", "failed"},
   author : Staff \cup Clients \cup {Nobody}, internal : BOOLEAN, file : {"none", "row"},
   creator : Staff \cup Clients \cup {Nobody}, assignee : Staff \cup {Nobody}]

(* The rows' types, of which TicketsTypeOK is a part.                       *)
RowsTyped ==
  /\ ticket \in TicketRow
  /\ hour \in 0 .. MaxHour /\ active \subseteq Staff
  /\ editing \in [Staff -> EditRow]
  /\ comments \in [Texts -> CommentRow]
  /\ told \in [Texts -> SUBSET (Staff \cup Clients)]
  /\ \A c \in Texts : comments[c].internal => comments[c].author \in Staff
  /\ files \subseteq Texts /\ promised \in 0 .. MaxHour
  /\ crossed \in BOOLEAN /\ updates \in 0 .. MaxUpdates /\ fileFailures \in Nat
-----------------------------------------------------------------------------
(* A row written by an update keeps the types.                              *)
LEMMA WriteTyped ==
  ASSUME RowsTyped, NEW s \in Staff, NEW row \in TicketRow, Write(s, row)
  PROVE  ticket' \in TicketRow /\ editing' \in [Staff -> EditRow]
<1>1. NoEdit \in EditRow
  BY TicketsAssumption DEF NoEdit, NoTicket, EditRow, Moment, Priorities
<1>2. \A r \in Staff : [editing[r] EXCEPT !.reopened = TRUE] \in EditRow
  BY DEF RowsTyped, EditRow
<1>3. editing' \in [Staff -> EditRow]
  BY <1>1, <1>2 DEF Write, RowsTyped
<1> QED BY <1>3 DEF Write

(* The rows that the three kinds of update write are typed.                 *)
LEMMA WrittenRows ==
  ASSUME RowsTyped
  PROVE  /\ \A s \in Staff, status \in Statuses : StatusTimes(ticket, editing[s], status) \in TicketRow
         /\ \A p \in Priorities : Repromised(ticket, p) \in TicketRow
         /\ \A u \in active \cup {Nobody} : [ticket EXCEPT !.assignee = u] \in TicketRow
<1>1. hour \in Moment /\ Never \in Moment
  BY TicketsAssumption DEF RowsTyped, Moment
<1>2. ASSUME NEW s \in Staff, NEW status \in Statuses
      PROVE  StatusTimes(ticket, editing[s], status) \in TicketRow
  BY <1>1 DEF RowsTyped, StatusTimes, TicketRow, Statuses
<1>3. ASSUME NEW p \in Priorities PROVE Repromised(ticket, p) \in TicketRow
  <2>1. Hours[p] \in Nat
    BY TicketsAssumption
  <2>2. hour + Hours[p] \in Moment
    BY <2>1, TicketsAssumption DEF RowsTyped, Moment
  <2> QED BY <2>2 DEF RowsTyped, Repromised, TicketRow
<1>4. ASSUME NEW u \in active \cup {Nobody} PROVE [ticket EXCEPT !.assignee = u] \in TicketRow
  BY DEF RowsTyped, TicketRow
<1> QED BY <1>2, <1>3, <1>4

(* Each step keeps the types.                                               *)
LEMMA TicketsTypeStep ==
  ASSUME RowsTyped, [TicketsNext]_ticketsVars
  PROVE  RowsTyped'
<1>0. NoTicket \in TicketRow /\ NoEdit \in EditRow /\ NoComment \in CommentRow
  BY TicketsAssumption
     DEF NoTicket, NoEdit, NoComment, TicketRow, EditRow, CommentRow, Moment, Priorities, Statuses
<1>1. ASSUME NEW u \in Staff \cup Clients \cup {Nobody}, NEW p \in Priorities,
             NEW file \in BOOLEAN, CreateTicket(u, p, file)
      PROVE  RowsTyped'
  <2>1. Hours[p] \in Nat
    BY TicketsAssumption
  <2>2. hour + Hours[p] \in Moment
    BY <2>1, TicketsAssumption DEF RowsTyped, Moment
  <2>3. ticket' \in TicketRow
    BY <1>0, <1>1, <2>2 DEF CreateTicket, TicketRow, Statuses
  <2>4. [NoComment EXCEPT !.pc = IF file THEN "file" ELSE "done", !.author = u] \in CommentRow
    BY <1>0 DEF CommentRow
  <2>5. comments' \in [Texts -> CommentRow]
    BY <1>1, <2>4 DEF CreateTicket, RowsTyped
  <2>6. \A c \in Texts : comments'[c].internal => comments'[c].author \in Staff
    BY <1>1 DEF CreateTicket, RowsTyped, NoComment
  <2> QED BY <1>1, <2>3, <2>5, <2>6 DEF CreateTicket, RowsTyped
<1>2. ASSUME NEW s \in Staff, ReadTicket(s) PROVE RowsTyped'
  <2>1. [pc |-> "write", resolved |-> ticket.resolved, priority |-> ticket.priority,
         reopened |-> FALSE] \in EditRow
    BY DEF RowsTyped, TicketRow, EditRow
  <2>2. editing' \in [Staff -> EditRow]
    BY <1>2, <2>1 DEF ReadTicket, RowsTyped
  <2>3. updates' \in 0 .. MaxUpdates
    BY <1>2, TicketsAssumption DEF ReadTicket, RowsTyped
  <2> QED BY <1>2, <2>2, <2>3 DEF ReadTicket, RowsTyped
<1>3. ASSUME NEW s \in Staff, NEW status \in Statuses, WriteStatusOf(s, status) PROVE RowsTyped'
  <2>1. ticket' \in TicketRow /\ editing' \in [Staff -> EditRow]
    BY <1>3, WriteTyped, WrittenRows DEF WriteStatusOf
  <2>2. crossed' \in BOOLEAN
    BY <1>3 DEF WriteStatusOf
  <2> QED BY <1>3, <2>1, <2>2 DEF WriteStatusOf, RowsTyped
<1>4. ASSUME NEW s \in Staff, NEW p \in Priorities, WritePriority(s, p) PROVE RowsTyped'
  <2>1. ticket \in TicketRow /\ Repromised(ticket, p) \in TicketRow
    BY WrittenRows DEF RowsTyped
  <2>2. ticket' \in TicketRow /\ editing' \in [Staff -> EditRow]
    BY <1>4, <2>1, WriteTyped DEF WritePriority
  <2>3. promised' \in 0 .. MaxHour
    BY <1>4 DEF WritePriority, RowsTyped
  <2> QED BY <1>4, <2>2, <2>3 DEF WritePriority, RowsTyped
<1>5. ASSUME NEW s \in Staff, NEW u \in Staff \cup {Nobody}, WriteAssignee(s, u) PROVE RowsTyped'
  <2>1. u \in active \cup {Nobody}
    BY <1>5 DEF WriteAssignee
  <2>2. ticket' \in TicketRow /\ editing' \in [Staff -> EditRow]
    BY <1>5, <2>1, WriteTyped, WrittenRows DEF WriteAssignee
  <2> QED BY <1>5, <2>2 DEF WriteAssignee, RowsTyped
<1>6. ASSUME NEW u \in Staff \cup Clients, NEW internal \in BOOLEAN, NEW file \in BOOLEAN,
             Comment(u, internal, file)
      PROVE  RowsTyped'
  <2>1. [pc |-> IF file THEN "file" ELSE "tell", author |-> u, internal |-> internal,
         file |-> "none", creator |-> ticket.creator, assignee |-> ticket.assignee] \in CommentRow
    BY DEF RowsTyped, TicketRow, CommentRow
  <2>2. comments' \in [Texts -> CommentRow]
    BY <1>6, <2>1 DEF Comment, RowsTyped
  <2>3. \A c \in Texts : comments'[c].internal => comments'[c].author \in Staff
    BY <1>6 DEF Comment, RowsTyped
  <2> QED BY <1>6, <2>2, <2>3 DEF Comment, RowsTyped
<1>7. ASSUME NEW c \in Texts, SaveFile(c) \/ AttachFile(c) PROVE RowsTyped'
  <2>1. comments' \in [Texts -> CommentRow]
    BY <1>7 DEF SaveFile, AttachFile, RowsTyped, CommentRow
  <2>2. \A d \in Texts : /\ comments'[d].internal = comments[d].internal
                              /\ comments'[d].author = comments[d].author
    BY <1>7 DEF SaveFile, AttachFile, RowsTyped, CommentRow
  <2>3. files' \subseteq Texts /\ fileFailures' \in Nat
    BY <1>7 DEF SaveFile, AttachFile, FileFails, RowsTyped
  <2> QED BY <1>7, <2>1, <2>2, <2>3 DEF SaveFile, AttachFile, RowsTyped
<1>8. ASSUME NEW c \in Texts, Tell(c) PROVE RowsTyped'
  <2>1. comments[c] \in CommentRow
    BY DEF RowsTyped
  <2>2. Told(c) \subseteq Staff \cup Clients
    BY <2>1 DEF Told, Recipients, Named, RowsTyped, CommentRow
  <2>3. told' \in [Texts -> SUBSET (Staff \cup Clients)]
    BY <1>8, <2>2 DEF Tell, RowsTyped
  <2>4. comments' \in [Texts -> CommentRow]
    BY <1>8 DEF Tell, RowsTyped, CommentRow
  <2>5. \A d \in Texts : /\ comments'[d].internal = comments[d].internal
                              /\ comments'[d].author = comments[d].author
    BY <1>8 DEF Tell, RowsTyped, CommentRow
  <2> QED BY <1>8, <2>3, <2>4, <2>5 DEF Tell, RowsTyped
<1>9. ASSUME NEW u \in Staff, RevokeUser(u) PROVE RowsTyped'
  BY <1>9 DEF RevokeUser, RowsTyped
<1>10. CASE HourPasses
  BY <1>10, TicketsAssumption DEF HourPasses, RowsTyped
<1>11. CASE UNCHANGED ticketsVars
  BY <1>11 DEF ticketsVars, RowsTyped
<1> QED BY <1>1, <1>2, <1>3, <1>4, <1>5, <1>6, <1>7, <1>8, <1>9, <1>10, <1>11
        DEF TicketsNext, UpdateTicketStep, CommentStep

LEMMA TicketsTypeInit ==
  TicketsInit => RowsTyped
<1>1. NoTicket \in TicketRow /\ NoEdit \in EditRow /\ NoComment \in CommentRow
  BY TicketsAssumption
     DEF NoTicket, NoEdit, NoComment, TicketRow, EditRow, CommentRow, Moment, Priorities, Statuses
<1>2. NoComment.internal = FALSE
  BY DEF NoComment
<1>3. 0 \in 0 .. MaxHour /\ 0 \in 0 .. MaxUpdates
  BY TicketsAssumption
<1>4. ASSUME TicketsInit PROVE \A c \in Texts : comments[c].internal => comments[c].author \in Staff
  BY <1>2, <1>4 DEF TicketsInit
<1>5. ASSUME TicketsInit
      PROVE  /\ editing \in [Staff -> EditRow] /\ comments \in [Texts -> CommentRow]
             /\ told \in [Texts -> SUBSET (Staff \cup Clients)]
  BY <1>1, <1>5 DEF TicketsInit
<1>6. ASSUME TicketsInit PROVE ticket \in TicketRow /\ crossed \in BOOLEAN
  BY <1>1, <1>6 DEF TicketsInit
<1>7. ASSUME TicketsInit
      PROVE  /\ hour \in 0 .. MaxHour /\ promised \in 0 .. MaxHour /\ updates \in 0 .. MaxUpdates
             /\ fileFailures \in Nat /\ active \subseteq Staff /\ files \subseteq Texts
  BY <1>3, <1>7 DEF TicketsInit
<1> QED BY <1>4, <1>5, <1>6, <1>7 DEF RowsTyped

(* Type correctness of a ticket, its updates under way and its thread       *)
(* (TicketsService).                                                        *)
THEOREM TicketsTyped == TicketsSpec => []TicketsTypeOK
<1>1. RowsTyped => TicketsTypeOK
  BY DEF RowsTyped, TicketsTypeOK, TicketRow, EditRow, CommentRow, Moment
<1> QED BY <1>1, TicketsTypeInit, TicketsTypeStep, PTL DEF TicketsSpec
-----------------------------------------------------------------------------
(* The inductive invariant.  An update that read a time of resolution which *)
(* is gone was overtaken by one that reopened the ticket, and none is under *)
(* way before there is a row; a file is on disk before its row is written.  *)
EditsKnowRow ==
  \A s \in Staff :
    editing[s].pc = "write" =>
      /\ ticket.status # "none"
      /\ editing[s].resolved # Never /\ ticket.resolved = Never => editing[s].reopened
FilesFirst ==
  \A c \in Texts : comments[c].pc = "attach" => c \in files
TicketsIInv ==
  /\ RowsTyped /\ TicketClock
  /\ EditsKnowRow /\ FilesFirst /\ AttachmentsStored

(* A write leaves the others under way as they were, or marks them when it  *)
(* takes away the time of resolution.                                       *)
LEMMA WriteMarks ==
  ASSUME TicketsIInv, NEW s \in Staff, NEW row \in TicketRow, Write(s, row),
         row.status # "none"
  PROVE  EditsKnowRow'
<1>0. ticket' = row /\ editing \in [Staff -> EditRow]
  BY DEF Write, TicketsIInv, RowsTyped
<1>1. ASSUME NEW r \in Staff, editing'[r].pc = "write", editing'[r].resolved # Never,
             row.resolved = Never
      PROVE  editing'[r].reopened
  <2>1. r # s /\ editing[r].pc = "write"
    BY <1>0, <1>1 DEF Write, NoEdit, EditRow
  <2>2. CASE ticket.resolved # Never
    <3>1. editing'[r] = [editing[r] EXCEPT !.reopened = TRUE]
      BY <1>1, <2>1, <2>2 DEF Write
    <3> QED BY <1>0, <3>1 DEF EditRow
  <2>3. CASE ticket.resolved = Never
    <3>1. editing'[r] = editing[r]
      BY <1>1, <2>1, <2>3 DEF Write
    <3> QED BY <1>1, <2>1, <2>3, <3>1 DEF TicketsIInv, EditsKnowRow
  <2> QED BY <2>2, <2>3
<1> QED BY <1>0, <1>1 DEF EditsKnowRow

(* Whatever is written over the row, its times follow its status.           *)
LEMMA StatusWriteKeepsClock ==
  ASSUME TicketsIInv, NEW s \in Staff, NEW status \in Statuses, WriteStatusOf(s, status)
  PROVE  TicketClock'
<1> DEFINE row == StatusTimes(ticket, editing[s], status)
<1>1. /\ ticket' = row /\ editing[s].pc = "write"
      /\ crossed' = (editing[s].resolved # Never /\ editing[s].reopened)
  BY DEF WriteStatusOf, Write
<1>2. ticket \in TicketRow /\ editing[s] \in EditRow /\ hour \in Nat
  BY TicketsAssumption DEF TicketsIInv, RowsTyped
<1>3. row.status = status /\ row.due = ticket.due /\ row.priority = ticket.priority
  BY <1>2 DEF StatusTimes, TicketRow
<1>4. row.resolved = (IF ~Settled(status) THEN Never
                      ELSE IF editing[s].resolved = Never THEN hour ELSE ticket.resolved)
  BY <1>2 DEF StatusTimes, TicketRow
<1>5. row.closed = (IF ~Settled(status) THEN Never
                    ELSE IF status = "CLOSED" THEN hour ELSE ticket.closed)
  BY <1>2 DEF StatusTimes, TicketRow
<1> HIDE DEF row
<1>6. DueFollowsPriority'
  BY <1>1, <1>3 DEF TicketsIInv, TicketClock, DueFollowsPriority, EditsKnowRow, WriteStatusOf
<1>7. hour # Never
  BY <1>2 DEF Never
<1>8. Settled(status) => row.resolved # Never \/ crossed'
  BY <1>1, <1>4, <1>7 DEF TicketsIInv, EditsKnowRow
<1>9. TimesFollowStatus'
  BY <1>1, <1>3, <1>4, <1>5, <1>7, <1>8 DEF TimesFollowStatus, Settled
<1> QED BY <1>6, <1>9 DEF TicketClock

(* Each step keeps the invariant.                                           *)
LEMMA TicketsStep ==
  ASSUME TicketsIInv, [TicketsNext]_ticketsVars
  PROVE  TicketsIInv'
<1>0. RowsTyped'
  BY TicketsTypeStep DEF TicketsIInv
<1>t. RowsTyped /\ ticket \in TicketRow /\ hour \in Nat
  BY TicketsAssumption DEF TicketsIInv, RowsTyped
<1> DEFINE Thread == FilesFirst /\ AttachmentsStored
           Quiet == UNCHANGED <<comments, files>>
<1>q. Quiet => Thread'
  BY DEF TicketsIInv, FilesFirst, AttachmentsStored
<1>k. ASSUME UNCHANGED <<ticket, promised, crossed>> PROVE TicketClock'
  BY <1>k DEF TicketsIInv, TicketClock, DueFollowsPriority, TimesFollowStatus
<1>e. ASSUME UNCHANGED <<ticket, editing>> PROVE EditsKnowRow'
  BY <1>e DEF TicketsIInv, EditsKnowRow
<1>1. ASSUME NEW u \in Staff \cup Clients \cup {Nobody}, NEW p \in Priorities,
             NEW file \in BOOLEAN, CreateTicket(u, p, file)
      PROVE  TicketClock' /\ EditsKnowRow' /\ Thread'
  <2>1. /\ ticket'.status = "OPEN" /\ ticket'.priority = p /\ ticket'.due = hour + Hours[p]
        /\ ticket'.resolved = Never /\ ticket'.closed = Never /\ promised' = hour
    BY <1>1 DEF CreateTicket, NoTicket
  <2>2. TicketClock'
    BY <2>1 DEF TicketClock, DueFollowsPriority, TimesFollowStatus, Settled
  <2>3. EditsKnowRow'
    BY <1>1 DEF CreateTicket, TicketsIInv, EditsKnowRow
  <2>4. Thread'
    BY <1>1 DEF CreateTicket, NoComment, TicketsIInv, RowsTyped, FilesFirst, AttachmentsStored
  <2> QED BY <2>2, <2>3, <2>4
<1>2. ASSUME NEW s \in Staff, ReadTicket(s) PROVE TicketClock' /\ EditsKnowRow' /\ Thread'
  <2>1. EditsKnowRow'
    BY <1>2, <1>t DEF ReadTicket, TicketsIInv, EditsKnowRow, RowsTyped
  <2> QED BY <1>2, <1>q, <1>k, <2>1 DEF ReadTicket
<1>3. ASSUME NEW s \in Staff, NEW status \in Statuses, WriteStatusOf(s, status)
      PROVE  TicketClock' /\ EditsKnowRow' /\ Thread'
  <2> DEFINE row == StatusTimes(ticket, editing[s], status)
  <2>0. row.status = status
    BY <1>t DEF StatusTimes, TicketRow
  <2>1. row \in TicketRow /\ row.status # "none" /\ Write(s, row)
    BY <1>3, <1>t, <2>0, WrittenRows DEF WriteStatusOf, Statuses
  <2>2. EditsKnowRow'
    BY <2>1, WriteMarks
  <2> QED BY <1>3, <1>q, <2>2, StatusWriteKeepsClock DEF WriteStatusOf
<1>4. ASSUME NEW s \in Staff, NEW p \in Priorities, WritePriority(s, p)
      PROVE  TicketClock' /\ EditsKnowRow' /\ Thread'
  <2>1. ticket.status # "none"
    BY <1>4 DEF WritePriority, Write, TicketsIInv, EditsKnowRow
  <2>2. CASE p # editing[s].priority
    <3> DEFINE row == Repromised(ticket, p)
    <3>1. row \in TicketRow /\ Write(s, row) /\ promised' = hour
      BY <1>4, <1>t, <2>2, WrittenRows DEF WritePriority
    <3>2. /\ row.status = ticket.status /\ row.priority = p /\ row.due = hour + Hours[p]
          /\ row.resolved = ticket.resolved /\ row.closed = ticket.closed
      BY <1>t DEF Repromised, TicketRow
    <3>3. EditsKnowRow'
      BY <2>1, <3>1, <3>2, WriteMarks
    <3>4. ticket' = row /\ crossed' = crossed
      BY <1>4, <3>1 DEF Write, WritePriority
    <3>5. TicketClock'
      BY <3>1, <3>2, <3>4 DEF TicketsIInv, TicketClock, DueFollowsPriority, TimesFollowStatus
    <3> QED BY <1>4, <1>q, <3>3, <3>5 DEF WritePriority
  <2>3. CASE p = editing[s].priority
    <3>1. Write(s, ticket) /\ UNCHANGED promised
      BY <1>4, <2>3 DEF WritePriority
    <3>2. EditsKnowRow'
      BY <1>t, <2>1, <3>1, WriteMarks
    <3>3. ticket' = ticket /\ crossed' = crossed
      BY <1>4, <3>1 DEF Write, WritePriority
    <3>4. TicketClock'
      BY <3>1, <3>3 DEF TicketsIInv, TicketClock, DueFollowsPriority, TimesFollowStatus
    <3> QED BY <1>4, <1>q, <3>2, <3>4 DEF WritePriority
  <2> QED BY <2>2, <2>3
<1>5. ASSUME NEW s \in Staff, NEW u \in Staff \cup {Nobody}, WriteAssignee(s, u)
      PROVE  TicketClock' /\ EditsKnowRow' /\ Thread'
  <2> DEFINE row == [ticket EXCEPT !.assignee = u]
  <2>1. row \in TicketRow /\ Write(s, row) /\ UNCHANGED promised
    BY <1>5, <1>t, WrittenRows DEF WriteAssignee
  <2>2. /\ row.status = ticket.status /\ row.priority = ticket.priority /\ row.due = ticket.due
        /\ row.resolved = ticket.resolved /\ row.closed = ticket.closed
    BY <1>t DEF TicketRow
  <2>3. ticket.status # "none"
    BY <2>1 DEF Write, TicketsIInv, EditsKnowRow
  <2>4. EditsKnowRow'
    BY <2>1, <2>2, <2>3, WriteMarks
  <2>5. ticket' = row /\ crossed' = crossed
    BY <1>5, <2>1 DEF Write, WriteAssignee
  <2>6. TicketClock'
    BY <2>1, <2>2, <2>5 DEF TicketsIInv, TicketClock, DueFollowsPriority, TimesFollowStatus
  <2> QED BY <1>5, <1>q, <2>4, <2>6 DEF WriteAssignee
<1>6. ASSUME NEW u \in Staff \cup Clients, NEW internal \in BOOLEAN, NEW file \in BOOLEAN,
             Comment(u, internal, file)
      PROVE  TicketClock' /\ EditsKnowRow' /\ Thread'
  <2>1. Thread'
    BY <1>6 DEF Comment, TicketsIInv, RowsTyped, FilesFirst, AttachmentsStored
  <2> QED BY <1>6, <1>k, <1>e, <2>1 DEF Comment
<1>7. ASSUME NEW c \in Texts, SaveFile(c) \/ AttachFile(c)
      PROVE  TicketClock' /\ EditsKnowRow' /\ Thread'
  <2>1. Thread'
    BY <1>7 DEF SaveFile, AttachFile, TicketsIInv, RowsTyped, CommentRow,
                FilesFirst, AttachmentsStored
  <2> QED BY <1>7, <1>k, <1>e, <2>1 DEF SaveFile, AttachFile
<1>8. ASSUME NEW c \in Texts, Tell(c) PROVE TicketClock' /\ EditsKnowRow' /\ Thread'
  <2>1. Thread'
    BY <1>8 DEF Tell, Told, TicketsIInv, RowsTyped, CommentRow,
                FilesFirst, AttachmentsStored
  <2> QED BY <1>8, <1>k, <1>e, <2>1 DEF Tell
<1>9. ASSUME NEW u \in Staff, RevokeUser(u) PROVE TicketClock' /\ EditsKnowRow' /\ Thread'
  BY <1>9, <1>q, <1>k, <1>e DEF RevokeUser
<1>10. ASSUME HourPasses PROVE TicketClock' /\ EditsKnowRow' /\ Thread'
  BY <1>10, <1>q, <1>k, <1>e DEF HourPasses
<1>11. ASSUME UNCHANGED ticketsVars PROVE TicketClock' /\ EditsKnowRow' /\ Thread'
  BY <1>11, <1>q, <1>k, <1>e DEF ticketsVars
<1>12. TicketClock' /\ EditsKnowRow' /\ Thread'
  <2> HIDE DEF Thread, Quiet
  <2> QED BY <1>1, <1>2, <1>3, <1>4, <1>5, <1>6, <1>7, <1>8, <1>9, <1>10, <1>11
          DEF TicketsNext, UpdateTicketStep, CommentStep
<1> QED BY <1>0, <1>12 DEF TicketsIInv

LEMMA TicketsIInvInit ==
  TicketsInit => TicketsIInv
<1>1. ASSUME TicketsInit PROVE TicketClock
  BY <1>1 DEF TicketsInit, NoTicket, TicketClock, DueFollowsPriority, TimesFollowStatus, Settled
<1>2. ASSUME TicketsInit PROVE EditsKnowRow /\ FilesFirst /\ AttachmentsStored
  BY <1>2 DEF TicketsInit, NoEdit, NoComment, EditsKnowRow, FilesFirst, AttachmentsStored
<1> QED BY <1>1, <1>2, TicketsTypeInit DEF TicketsIInv

(* The deadline belongs to the priority whatever updates cross; so do the   *)
(* times to the status, but for a settled ticket that an update which had   *)
(* read it resolved wrote over another's reopening: that one may lack       *)
(* resolvedAt (update).  What the thread offers is on disk, whatever files  *)
(* and rows fail (create, addComment, saveAttachment).                      *)
THEOREM TicketsAreKept == TicketsSpec => []TicketsKept
<1>1. TicketsIInv => TicketsKept
  BY DEF TicketsIInv, TicketsKept
<1> QED BY <1>1, TicketsIInvInit, TicketsStep, PTL DEF TicketsSpec
-----------------------------------------------------------------------------
(* The fleet.                                                               *)
(* What a site has under way, and the requests in flight.                   *)
SendingType == {NotSending} \cup [reading : Reading, attempts : 0 .. MaxAttempts]
RequestType == [site : Customers, reading : Reading, device : 0 .. MaxRows, attempt : 1 .. MaxAttempts]

(* The types, and that a request in flight looked up a row that exists.     *)
FleetTyping ==
  /\ FleetTypeOK
  /\ sending \in [Customers -> SendingType]
  /\ requests \subseteq RequestType
  /\ \A q \in requests : q.device \in {NoDevice} \cup DOMAIN devices
-----------------------------------------------------------------------------
(* The rows are numbered from 1.                                            *)
LEMMA DevicesDomain == ASSUME FleetTyping PROVE DOMAIN devices = 1 .. Len(devices) /\ Len(devices) \in 0 .. MaxRows
  BY FleetAssumption DEF FleetTyping, FleetTypeOK

(* The row most recently seen at an address is one of the rows at it.       *)
LEMMA AtHostIsThere ==
  ASSUME FleetTyping, NEW h
  PROVE  /\ AtHost(h) = NoDevice <=> SeenLast(h) = {}
         /\ AtHost(h) # NoDevice => AtHost(h) \in SeenLast(h)
         /\ AtHost(h) \in {NoDevice} \cup DOMAIN devices
<1>1. SeenLast(h) \subseteq DOMAIN devices
  BY DEF SeenLast
<1>2. NoDevice \notin DOMAIN devices
  BY DevicesDomain DEF NoDevice
<1>3. SeenLast(h) # {} => (CHOOSE i \in SeenLast(h) : TRUE) \in SeenLast(h)
  OBVIOUS
<1> QED BY <1>1, <1>2, <1>3 DEF AtHost

(* Of two rows, at most one was seen last: later is an order of the rows.   *)
LEMMA SeenLastOne ==
  ASSUME FleetTyping, NEW h, NEW i \in SeenLast(h)
  PROVE  AtHost(h) = i
<1>1. AtHost(h) \in SeenLast(h)
  BY AtHostIsThere
<1>2. ASSUME AtHost(h) # i PROVE FALSE
  <2>1. AtHost(h) \in DOMAIN devices /\ i \in DOMAIN devices /\ devices[i].host = h /\ devices[AtHost(h)].host = h
    BY <1>1 DEF SeenLast
  <2>2. <<i, AtHost(h)>> \in later /\ <<AtHost(h), i>> \in later
    BY <1>1, <1>2, <2>1 DEF SeenLast
  <2> QED BY <1>2, <2>1, <2>2 DEF FleetTyping, FleetTypeOK
<1> QED BY <1>2

(* What a report's row has in common with it: its serial number, or its
   address where one of the two gives no serial number. *)
LEMMA LookupIsRight ==
  ASSUME FleetTyping, NEW r
  PROVE  /\ Lookup(r) \in {NoDevice} \cup DOMAIN devices
         /\ r.serial = NoSerial => Lookup(r) = AtHost(r.host)
         /\ Lookup(r) # NoDevice /\ r.serial # NoSerial => devices[Lookup(r)].serial \in {NoSerial, r.serial}
<1>1. BySerial(r) \subseteq DOMAIN devices /\ \A i \in BySerial(r) : devices[i].serial = r.serial /\ r.serial # NoSerial
  BY DEF BySerial
<1>2. BySerial(r) # {} => (CHOOSE i \in BySerial(r) : TRUE) \in BySerial(r)
  OBVIOUS
<1>3. CASE BySerial(r) # {}
  <2>1. Lookup(r) \in BySerial(r)
    BY <1>2, <1>3 DEF Lookup
  <2> QED BY <1>1, <2>1
<1>4. CASE BySerial(r) = {}
  <2>1. AtHost(r.host) \in {NoDevice} \cup DOMAIN devices
    BY AtHostIsThere
  <2>2. Lookup(r) = IF AtHost(r.host) # NoDevice /\ (devices[AtHost(r.host)].serial = NoSerial \/ r.serial = NoSerial)
                    THEN AtHost(r.host) ELSE NoDevice
    BY <1>4 DEF Lookup
  <2>3. CASE Lookup(r) = NoDevice
    BY <2>1, <2>2, <2>3
  <2>4. CASE Lookup(r) # NoDevice
    BY <2>1, <2>2, <2>4
  <2> QED BY <2>3, <2>4
<1> QED BY <1>3, <1>4
-----------------------------------------------------------------------------
(* What a store leaves.                                                     *)
(* The row a request writes, and what it then holds.                        *)
StoredAt(q) == IF q.device = NoDevice THEN Len(devices) + 1 ELSE q.device
StoredRow(q) == IF q.device = NoDevice THEN NewRow(q) ELSE Seen(devices[q.device], q.reading)

(* The parts of a request in flight.                                        *)
LEMMA RequestTyped ==
  ASSUME FleetTyping, NEW q \in requests
  PROVE  /\ q.site \in Customers /\ q.reading \in Reading /\ q.attempt \in 1 .. MaxAttempts
         /\ q.reading.serial \in Serials /\ q.reading.host \in Hosts /\ q.reading.counter \in BOOLEAN
         /\ q.reading.printer \in Printers
         /\ q.device \in {NoDevice} \cup DOMAIN devices
<1>1. q \in RequestType
  BY DEF FleetTyping
<1>2. q.reading \in Reading
  BY <1>1 DEF RequestType
<1> QED BY <1>1, <1>2 DEF RequestType, Reading, FleetTyping

(* A row made from a report.                                                *)
LEMMA NewRowTyped ==
  ASSUME FleetTyping, NEW q \in requests
  PROVE  /\ NewRow(q) \in Row
         /\ NewRow(q).serial = q.reading.serial /\ NewRow(q).host = q.reading.host
         /\ NewRow(q).billingExcluded = NeedsReview(q.reading)
         /\ NewRow(q).reviewPending = NeedsReview(q.reading)
         /\ NewRow(q).confirmed = ~NeedsReview(q.reading)
<1>1. NeedsReview(q.reading) \in BOOLEAN
  BY DEF NeedsReview
<1>2. ~NeedsReview(q.reading) = (q.reading.host \notin Outside /\ q.reading.counter)
  BY RequestTyped DEF NeedsReview
<1> QED BY <1>1, <1>2, RequestTyped DEF NewRow, Row

(* A row refreshed by a report.                                             *)
LEMMA SeenTyped ==
  ASSUME FleetTyping, NEW q \in requests, q.device # NoDevice
  PROVE  LET row == devices[q.device]  seen == Seen(row, q.reading)
         IN /\ seen \in Row
            /\ seen.host = q.reading.host
            /\ seen.serial = IF q.reading.serial = NoSerial THEN row.serial ELSE q.reading.serial
            /\ seen.billingExcluded = row.billingExcluded /\ seen.reviewPending = row.reviewPending
            /\ seen.confirmed = row.confirmed /\ seen.customer = row.customer
<1>1. devices[q.device] \in Row
  BY RequestTyped DEF FleetTyping, FleetTypeOK
<1> QED BY <1>1, RequestTyped DEF Seen, Row

(* A store writes one row, which becomes the last one seen.                 *)
LEMMA StoredRows ==
  ASSUME FleetTyping, NEW q \in requests, NEW answered \in BOOLEAN, Store(q, answered)
  PROVE  /\ devices' \in Seq(Row) /\ Len(devices') \in 0 .. MaxRows
         /\ DOMAIN devices' = (DOMAIN devices) \cup {StoredAt(q)}
         /\ devices'[StoredAt(q)] = StoredRow(q)
         /\ \A i \in (DOMAIN devices) \ {StoredAt(q)} : devices'[i] = devices[i]
         /\ later' = {seen \in later : seen[2] # StoredAt(q)} \cup {StoredAt(q)} \X ((DOMAIN devices) \ {StoredAt(q)})
         /\ stored' = [device |-> StoredAt(q), printer |-> q.reading.printer,
                       sure |-> q.reading.serial # NoSerial \/ identified[q.reading.host] = q.reading.printer]
         /\ StoredAt(q) \in Nat \ {NoDevice}
<1>0. devices \in Seq(Row) /\ Len(devices) \in Nat /\ MaxRows \in Nat
  BY FleetAssumption DEF FleetTyping, FleetTypeOK
<1>1. CASE q.device = NoDevice
  <2>1. devices' = Append(devices, NewRow(q)) /\ StoredAt(q) = Len(devices) + 1 /\ StoredRow(q) = NewRow(q)
    BY <1>1 DEF Store, StoredAt, StoredRow
  <2>2. Len(devices) < MaxRows
    BY <1>1 DEF Store
  <2>3. NewRow(q) \in Row
    BY NewRowTyped
  <2>4. devices' \in Seq(Row) /\ Len(devices') = Len(devices) + 1
    BY <1>0, <2>1, <2>3
  <2>5. DOMAIN devices' = (DOMAIN devices) \cup {StoredAt(q)}
    BY <1>0, <2>1, <2>4
  <2>6. devices'[StoredAt(q)] = StoredRow(q)
    BY <1>0, <2>1
  <2>7. \A i \in (DOMAIN devices) \ {StoredAt(q)} : devices'[i] = devices[i]
    BY <1>0, <2>1
  <2>8. StoredAt(q) \in Nat \ {NoDevice}
    BY <1>0, <2>1 DEF NoDevice
  <2> QED BY <1>0, <1>1, <2>2, <2>4, <2>5, <2>6, <2>7, <2>8 DEF Store, StoredAt
<1>2. CASE q.device # NoDevice
  <2>1. devices' = [devices EXCEPT ![q.device] = Seen(@, q.reading)] /\ StoredAt(q) = q.device
        /\ StoredRow(q) = Seen(devices[q.device], q.reading)
    BY <1>2 DEF Store, StoredAt, StoredRow
  <2>2. q.device \in DOMAIN devices
    BY <1>2, RequestTyped
  <2>3. StoredRow(q) \in Row
    BY <1>2, <2>1, SeenTyped
  <2>4. devices' = [devices EXCEPT ![q.device] = StoredRow(q)]
    BY <2>1
  <2>5. devices' \in Seq(Row) /\ Len(devices') = Len(devices) /\ DOMAIN devices' = DOMAIN devices
    BY <1>0, <2>2, <2>3, <2>4
  <2>6. devices'[StoredAt(q)] = StoredRow(q) /\ \A i \in (DOMAIN devices) \ {StoredAt(q)} : devices'[i] = devices[i]
    BY <1>0, <2>1, <2>2, <2>4
  <2>7. StoredAt(q) \in Nat \ {NoDevice}
    BY <1>0, <2>1, <2>2 DEF NoDevice
  <2>8. Len(devices') \in 0 .. MaxRows
    BY <2>5, DevicesDomain
  <2>9. /\ later' = {seen \in later : seen[2] # StoredAt(q)} \cup {StoredAt(q)} \X ((DOMAIN devices) \ {StoredAt(q)})
        /\ stored' = [device |-> StoredAt(q), printer |-> q.reading.printer,
                       sure |-> q.reading.serial # NoSerial \/ identified[q.reading.host] = q.reading.printer]
    BY <1>2, <2>1 DEF Store
  <2> QED BY <2>1, <2>2, <2>5, <2>6, <2>7, <2>8, <2>9
<1> QED BY <1>1, <1>2
-----------------------------------------------------------------------------
(* The types.                                                               *)
(* What a site has under way stays of its type.                             *)
LEMMA SendingTyped ==
  ASSUME FleetTyping, NEW c \in Customers, sending[c] # NotSending
  PROVE  /\ sending[c] \in [reading : Reading, attempts : 0 .. MaxAttempts]
         /\ sending[c].reading \in Reading /\ sending[c].attempts \in 0 .. MaxAttempts
  BY DEF FleetTyping, SendingType

(* Steps that touch neither the devices nor what is known of them.          *)
LEMMA DevicesRest ==
  ASSUME FleetTyping, UNCHANGED <<devices, later, stored, identified>>,
         place' \in [Printers -> Hosts \cup {Gone}],
         sending' \in [Customers -> SendingType],
         requests' \subseteq RequestType,
         \A q \in requests' : q.device \in {NoDevice} \cup DOMAIN devices
  PROVE  FleetTyping'
<1>1. \A c \in Customers : sending'[c] = NotSending \/ sending'[c] \in [reading : Reading, attempts : 0 .. MaxAttempts]
  BY DEF SendingType
<1> QED BY <1>1 DEF FleetTyping, FleetTypeOK, RequestType

(* A store keeps the types: a serial number stays on one row.               *)
LEMMA StoreTyped ==
  ASSUME FleetTyping, NEW q \in requests, NEW answered \in BOOLEAN, Store(q, answered)
  PROVE  FleetTyping'
<1> DEFINE s == StoredAt(q)
<1>0. /\ devices' \in Seq(Row) /\ Len(devices') \in 0 .. MaxRows
      /\ DOMAIN devices' = (DOMAIN devices) \cup {s}
      /\ devices'[s] = StoredRow(q)
      /\ \A i \in (DOMAIN devices) \ {s} : devices'[i] = devices[i]
      /\ later' = {seen \in later : seen[2] # s} \cup {s} \X ((DOMAIN devices) \ {s})
      /\ stored' = [device |-> s, printer |-> q.reading.printer,
                    sure |-> q.reading.serial # NoSerial \/ identified[q.reading.host] = q.reading.printer]
  BY StoredRows
<1> HIDE DEF s
<1>1. place' \in [Printers -> Hosts \cup {Gone}]
  BY DEF Store, FleetTyping, FleetTypeOK
<1>2. sending' \in [Customers -> SendingType]
  BY DEF Store, FleetTyping, SendingType
<1>3. requests' \subseteq RequestType /\ \A r \in requests' : r.device \in {NoDevice} \cup DOMAIN devices'
  BY <1>0 DEF Store, FleetTyping
<1>4. later' \subseteq (DOMAIN devices') \X (DOMAIN devices')
  BY <1>0 DEF FleetTyping, FleetTypeOK
<1>5. ASSUME NEW i \in DOMAIN devices', NEW j \in DOMAIN devices', i # j
      PROVE  <<i, j>> \in later' <=> <<j, i>> \notin later'
  <2>1. CASE i = s
    <3>1. j \in (DOMAIN devices) \ {s} /\ <<j, i>> \notin later' /\ <<i, j>> \in later'
      BY <1>0, <1>5, <2>1
    <3> QED BY <3>1
  <2>2. CASE j = s
    <3>1. i \in (DOMAIN devices) \ {s} /\ <<i, j>> \notin later' /\ <<j, i>> \in later'
      BY <1>0, <1>5, <2>2
    <3> QED BY <3>1
  <2>3. CASE i # s /\ j # s
    <3>1. i \in DOMAIN devices /\ j \in DOMAIN devices
      BY <1>0, <2>3
    <3>2. (<<i, j>> \in later' <=> <<i, j>> \in later) /\ (<<j, i>> \in later' <=> <<j, i>> \in later)
      BY <1>0, <2>3
    <3> QED BY <1>5, <3>1, <3>2 DEF FleetTyping, FleetTypeOK
  <2> QED BY <2>1, <2>2, <2>3
<1>6. stored' \in [device : DOMAIN devices', printer : Printers, sure : BOOLEAN]
  <2>1. (q.reading.serial # NoSerial \/ identified[q.reading.host] = q.reading.printer) \in BOOLEAN
    OBVIOUS
  <2> QED BY <1>0, <2>1, RequestTyped
<1>7. identified' \in [Hosts -> Printers \cup {NoOne}]
  BY RequestTyped DEF Store, FleetTyping, FleetTypeOK
<1>8. \A i \in DOMAIN devices' : devices'[i].reviewPending => devices'[i].billingExcluded
  <2>1. StoredRow(q).reviewPending => StoredRow(q).billingExcluded
    <3>1. CASE q.device = NoDevice
      BY <3>1, NewRowTyped DEF StoredRow
    <3>2. CASE q.device # NoDevice
      BY <3>2, SeenTyped, RequestTyped DEF StoredRow, FleetTyping, FleetTypeOK
    <3> QED BY <3>1, <3>2
  <2> QED BY <1>0, <2>1 DEF FleetTyping, FleetTypeOK
<1>9. ASSUME NEW i \in DOMAIN devices', NEW j \in DOMAIN devices', devices'[i].serial = devices'[j].serial
      PROVE  i = j \/ devices'[i].serial = NoSerial
  <2>1. ASSUME NEW k \in (DOMAIN devices) \ {s}, devices[k].serial = StoredRow(q).serial PROVE StoredRow(q).serial = NoSerial
    <3>0. ~SerialTaken(q)
      BY DEF Store
    <3>1. CASE q.device = NoDevice
      <4>1. StoredRow(q).serial = q.reading.serial /\ k # q.device
        BY <3>1, NewRowTyped, DevicesDomain DEF StoredRow, NoDevice
      <4> QED BY <2>1, <3>0, <4>1 DEF SerialTaken
    <3>2. CASE q.device # NoDevice
      <4>1. k # q.device /\ q.device \in DOMAIN devices
        BY <3>2, RequestTyped DEF s, StoredAt
      <4>2. StoredRow(q).serial = IF q.reading.serial = NoSerial THEN devices[q.device].serial ELSE q.reading.serial
        BY <3>2, SeenTyped DEF StoredRow
      <4>3. CASE q.reading.serial = NoSerial
        BY <2>1, <4>1, <4>2, <4>3 DEF FleetTyping, FleetTypeOK
      <4>4. CASE q.reading.serial # NoSerial
        BY <2>1, <3>0, <4>1, <4>2, <4>4 DEF SerialTaken
      <4> QED BY <4>3, <4>4
    <3> QED BY <3>1, <3>2
  <2>2. CASE i = s
    BY <1>0, <1>9, <2>1, <2>2
  <2>3. CASE j = s
    BY <1>0, <1>9, <2>1, <2>3
  <2>4. CASE i # s /\ j # s
    BY <1>0, <1>9, <2>4 DEF FleetTyping, FleetTypeOK
  <2> QED BY <2>2, <2>3, <2>4
<1>10. \A c \in Customers : sending'[c] = NotSending \/ sending'[c] \in [reading : Reading, attempts : 0 .. MaxAttempts]
  BY <1>2 DEF SendingType
<1>11. FleetTypeOK'
  <2>1. requests' \subseteq [site : Customers, reading : Reading, device : 0 .. MaxRows, attempt : 1 .. MaxAttempts]
    BY <1>3 DEF RequestType
  <2>2. Len(devices') <= MaxRows
    BY <1>0, FleetAssumption
  <2> QED BY <1>0, <1>1, <1>4, <1>5, <1>6, <1>7, <1>8, <1>9, <1>10, <2>1, <2>2 DEF FleetTypeOK
<1> QED BY <1>2, <1>3, <1>11 DEF FleetTyping

(* A row that staff decided about.                                          *)
LEMMA DecidedTyped ==
  ASSUME FleetTyping, NEW i \in DOMAIN devices, NEW row \in Row,
         row.serial = devices[i].serial, row.reviewPending => row.billingExcluded,
         devices' = [devices EXCEPT ![i] = row],
         UNCHANGED <<place, sending, requests, later, stored, identified>>
  PROVE  FleetTyping'
<1>0. devices \in Seq(Row) /\ Len(devices) \in 0 .. MaxRows
  BY DevicesDomain DEF FleetTyping, FleetTypeOK
<1>1. devices' \in Seq(Row) /\ Len(devices') = Len(devices) /\ DOMAIN devices' = DOMAIN devices
  BY <1>0
<1>2. \A j \in DOMAIN devices : devices'[j] = IF j = i THEN row ELSE devices[j]
  BY <1>0
<1>3. \A j \in DOMAIN devices : devices'[j].serial = devices[j].serial
  BY <1>2
<1>4. \A j \in DOMAIN devices : devices'[j].reviewPending => devices'[j].billingExcluded
  BY <1>2 DEF FleetTyping, FleetTypeOK
<1>5. FleetTypeOK'
  BY <1>0, <1>1, <1>3, <1>4 DEF FleetTyping, FleetTypeOK
<1> QED BY <1>1, <1>5 DEF FleetTyping, RequestType

(* Every step keeps the types.                                              *)
LEMMA FleetTypeStep ==
  ASSUME FleetTyping, [FleetNext]_fvars
  PROVE  FleetTyping'
<1>1. ASSUME NEW p \in Printers, NEW h \in Hosts \cup {Gone}, MovePrinter(p, h) PROVE FleetTyping'
  <2>1. place' \in [Printers -> Hosts \cup {Gone}]
    BY <1>1 DEF MovePrinter, FleetTyping, FleetTypeOK
  <2> QED BY <1>1, <2>1, DevicesRest DEF MovePrinter, FleetTyping
<1>2. ASSUME NEW p \in Printers, NEW s \in Serials, NEW k \in BOOLEAN, PollPrinter(p, s, k) PROVE FleetTyping'
  <2>1. place[p] \in Hosts
    BY <1>2 DEF PollPrinter, FleetTyping, FleetTypeOK
  <2>2. [printer |-> p, host |-> place[p], serial |-> s, counter |-> k] \in Reading
    BY <2>1 DEF Reading
  <2>3. [reading |-> [printer |-> p, host |-> place[p], serial |-> s, counter |-> k], attempts |-> 0] \in SendingType
    BY <2>2, FleetAssumption DEF SendingType
  <2>4. sending' \in [Customers -> SendingType]
    BY <1>2, <2>3 DEF PollPrinter, FleetTyping
  <2> QED BY <1>2, <2>4, DevicesRest DEF PollPrinter, FleetTyping, FleetTypeOK
<1>3. ASSUME NEW c \in Customers, Attempt(c) PROVE FleetTyping'
  <2>1. sending[c].reading \in Reading /\ sending[c].attempts \in 0 .. MaxAttempts /\ sending[c].attempts + 1 \in 1 .. MaxAttempts
        /\ sending[c] \in [reading : Reading, attempts : 0 .. MaxAttempts]
    BY <1>3, SendingTyped, FleetAssumption DEF Attempt
  <2>2. [sending[c] EXCEPT !.attempts = @ + 1] \in SendingType
    BY <2>1, FleetAssumption DEF SendingType
  <2>3. sending' \in [Customers -> SendingType]
    BY <1>3, <2>2 DEF Attempt, FleetTyping
  <2> DEFINE new == [site |-> c, reading |-> sending[c].reading, device |-> Lookup(sending[c].reading),
                     attempt |-> sending[c].attempts + 1]
  <2>4. Lookup(sending[c].reading) \in {NoDevice} \cup DOMAIN devices
    BY LookupIsRight
  <2>5. Lookup(sending[c].reading) \in 0 .. MaxRows
    BY <2>4, DevicesDomain, FleetAssumption DEF NoDevice
  <2>6. new \in RequestType /\ new.device \in {NoDevice} \cup DOMAIN devices
    BY <2>1, <2>4, <2>5 DEF RequestType
  <2>7. requests' = requests \cup {new}
    BY <1>3 DEF Attempt
  <2> QED BY <1>3, <2>3, <2>6, <2>7, DevicesRest DEF Attempt, FleetTyping, FleetTypeOK
<1>4. ASSUME NEW c \in Customers, GiveUp(c) PROVE FleetTyping'
  <2>1. sending' \in [Customers -> SendingType]
    BY <1>4 DEF GiveUp, FleetTyping, SendingType
  <2> QED BY <1>4, <2>1, DevicesRest DEF GiveUp, FleetTyping, FleetTypeOK
<1>5. ASSUME NEW q \in requests, StoreFails(q) PROVE FleetTyping'
  <2>1. requests' \subseteq requests
    BY <1>5 DEF StoreFails
  <2> QED BY <1>5, <2>1, DevicesRest DEF StoreFails, FleetTyping, FleetTypeOK
<1>6. ASSUME NEW q \in requests, NEW answered \in BOOLEAN, Store(q, answered) PROVE FleetTyping'
  BY <1>6, StoreTyped
<1>7. ASSUME NEW i \in DOMAIN devices, NEW excluded \in BOOLEAN, Decide(i, excluded) PROVE FleetTyping'
  <2> DEFINE row == [devices[i] EXCEPT !.billingExcluded = excluded, !.reviewPending = FALSE, !.confirmed = TRUE]
  <2>1. devices[i] \in Row
    BY DEF FleetTyping, FleetTypeOK
  <2>2. row \in Row /\ row.serial = devices[i].serial /\ row.reviewPending = FALSE
    BY <2>1 DEF Row
  <2>3. devices' = [devices EXCEPT ![i] = row]
    BY <1>7 DEF Decide
  <2> HIDE DEF row
  <2> QED BY <1>7, <2>2, <2>3, DecidedTyped DEF Decide
<1>8. ASSUME NEW i \in DOMAIN devices, NEW c \in Customers \cup {NoOne}, Assign(i, c) PROVE FleetTyping'
  <2> DEFINE row == [devices[i] EXCEPT !.customer = c]
  <2>1. devices[i] \in Row /\ (devices[i].reviewPending => devices[i].billingExcluded)
    BY DEF FleetTyping, FleetTypeOK
  <2>2. row \in Row /\ row.serial = devices[i].serial /\ (row.reviewPending => row.billingExcluded)
    BY <2>1 DEF Row
  <2>3. devices' = [devices EXCEPT ![i] = row]
    BY <1>8 DEF Assign
  <2> HIDE DEF row
  <2> QED BY <1>8, <2>2, <2>3, DecidedTyped DEF Assign
<1>9. CASE UNCHANGED fvars
  BY <1>9, DevicesRest DEF fvars, FleetTyping, FleetTypeOK
<1> QED BY <1>1, <1>2, <1>3, <1>4, <1>5, <1>6, <1>7, <1>8, <1>9 DEF FleetNext

(* There are no devices at first.                                           *)
LEMMA FleetTypeInit == FleetInit => FleetTyping
<1> SUFFICES ASSUME FleetInit PROVE FleetTyping
  OBVIOUS
<1>1. devices = <<>> /\ requests = {} /\ later = {} /\ stored = NothingStored
  BY DEF FleetInit
<1>2. sending \in [Customers -> SendingType] /\ \A c \in Customers : sending[c] = NotSending
  BY DEF FleetInit, SendingType
<1>3. devices \in Seq(Row) /\ Len(devices) <= MaxRows /\ DOMAIN devices = {}
  BY <1>1, FleetAssumption
<1>4. identified \in [Hosts -> Printers \cup {NoOne}] /\ place \in [Printers -> Hosts \cup {Gone}]
  BY DEF FleetInit
<1> QED BY <1>1, <1>2, <1>3, <1>4 DEF FleetTyping, FleetTypeOK

(* The types of the devices, the reports under way and the requests in flight
   (ingest.service.ts upsertDevice), for any sites, printers and retries. *)
THEOREM FleetTyped == FleetSpec => []FleetTypeOK
<1>1. FleetTyping => FleetTypeOK
  BY DEF FleetTyping
<1> QED BY <1>1, FleetTypeInit, FleetTypeStep, PTL DEF FleetSpec
-----------------------------------------------------------------------------
(* Staff's decisions.                                                       *)
(* What a report may not change on a row staff confirmed.                   *)
DecisionsKept ==
  \A i \in DOMAIN devices :
    /\ devices'[i].reviewPending => devices[i].reviewPending
    /\ requests' # requests =>
         /\ devices'[i].billingExcluded = devices[i].billingExcluded
         /\ devices'[i].customer = devices[i].customer

(* A device waiting for review is not billed, and only staff's own steps
   change what staff decided. *)
LEMMA DecisionsStep ==
  ASSUME FleetTyping, NoneBilledBlind, [FleetNext]_fvars
  PROVE  NoneBilledBlind' /\ DecisionsKept
<1>1. ASSUME UNCHANGED devices PROVE NoneBilledBlind' /\ DecisionsKept
  BY <1>1 DEF NoneBilledBlind, DecisionsKept
<1>2. ASSUME NEW q \in requests, NEW answered \in BOOLEAN, Store(q, answered)
      PROVE  NoneBilledBlind' /\ DecisionsKept
  <2>1. /\ DOMAIN devices' = (DOMAIN devices) \cup {StoredAt(q)}
        /\ devices'[StoredAt(q)] = StoredRow(q)
        /\ \A i \in (DOMAIN devices) \ {StoredAt(q)} : devices'[i] = devices[i]
    BY <1>2, StoredRows
  <2>2. CASE q.device = NoDevice
    <3>1. StoredAt(q) \notin DOMAIN devices
      BY <2>2, DevicesDomain DEF StoredAt
    <3>2. StoredRow(q).billingExcluded \/ StoredRow(q).confirmed
      BY <2>2, NewRowTyped DEF StoredRow
    <3> QED BY <2>1, <3>1, <3>2 DEF NoneBilledBlind, DecisionsKept
  <2>3. CASE q.device # NoDevice
    <3>1. StoredAt(q) = q.device /\ q.device \in DOMAIN devices
      BY <2>3, RequestTyped DEF StoredAt
    <3>2. LET row == devices[q.device] IN
            /\ StoredRow(q).billingExcluded = row.billingExcluded /\ StoredRow(q).reviewPending = row.reviewPending
            /\ StoredRow(q).confirmed = row.confirmed /\ StoredRow(q).customer = row.customer
      BY <2>3, SeenTyped DEF StoredRow
    <3>3. NoneBilledBlind'
      BY <2>1, <3>1, <3>2 DEF NoneBilledBlind
    <3>4. DecisionsKept
      BY <2>1, <3>1, <3>2 DEF DecisionsKept
    <3> QED BY <3>3, <3>4
  <2> QED BY <2>2, <2>3
<1>3. ASSUME NEW i \in DOMAIN devices, NEW excluded \in BOOLEAN, Decide(i, excluded)
      PROVE  NoneBilledBlind' /\ DecisionsKept
  <2> DEFINE row == [devices[i] EXCEPT !.billingExcluded = excluded, !.reviewPending = FALSE, !.confirmed = TRUE]
  <2>1. devices[i] \in Row /\ devices \in Seq(Row)
    BY DEF FleetTyping, FleetTypeOK
  <2>2. row.reviewPending = FALSE /\ row.confirmed = TRUE
    BY <2>1 DEF Row
  <2>3. devices' = [devices EXCEPT ![i] = row] /\ requests' = requests
    BY <1>3 DEF Decide
  <2> HIDE DEF row
  <2>4. DOMAIN devices' = DOMAIN devices /\ devices'[i] = row /\ \A j \in DOMAIN devices : j # i => devices'[j] = devices[j]
    BY <2>1, <2>3
  <2> QED BY <2>2, <2>3, <2>4 DEF NoneBilledBlind, DecisionsKept
<1>4. ASSUME NEW i \in DOMAIN devices, NEW c \in Customers \cup {NoOne}, Assign(i, c)
      PROVE  NoneBilledBlind' /\ DecisionsKept
  <2> DEFINE row == [devices[i] EXCEPT !.customer = c]
  <2>1. devices[i] \in Row /\ devices \in Seq(Row)
    BY DEF FleetTyping, FleetTypeOK
  <2>2. row.reviewPending = devices[i].reviewPending /\ row.confirmed = devices[i].confirmed
        /\ row.billingExcluded = devices[i].billingExcluded
    BY <2>1 DEF Row
  <2>3. devices' = [devices EXCEPT ![i] = row] /\ requests' = requests
    BY <1>4 DEF Assign
  <2> HIDE DEF row
  <2>4. DOMAIN devices' = DOMAIN devices /\ devices'[i] = row /\ \A j \in DOMAIN devices : j # i => devices'[j] = devices[j]
    BY <2>1, <2>3
  <2> QED BY <2>2, <2>3, <2>4 DEF NoneBilledBlind, DecisionsKept
<1> QED BY <1>1, <1>2, <1>3, <1>4 DEF FleetNext, fvars, MovePrinter, PollPrinter, Attempt, GiveUp, StoreFails

(* Whatever order reports and their retries are stored in, a review that
   staff made of a device stands (ingest.service.ts upsertDevice). *)
THEOREM ReviewIsKept == FleetSpec => ReviewStands
<1>1. FleetInit => NoneBilledBlind
  BY DEF FleetInit, NoneBilledBlind
<1>2. FleetTyping /\ NoneBilledBlind /\ [FleetNext]_fvars => NoneBilledBlind' /\ [DecisionsKept]_fvars
  BY DecisionsStep
<1>3. FleetSpec => [](FleetTyping /\ NoneBilledBlind)
  BY <1>1, <1>2, FleetTypeInit, FleetTypeStep, PTL DEF FleetSpec
<1>4. FleetSpec => [][NoneBilledBlind']_fvars
  BY <1>2, <1>3, PTL DEF FleetSpec
<1>5. FleetSpec => DecisionsStand
  <2>1. FleetTyping /\ NoneBilledBlind /\ [FleetNext]_fvars =>
          [\A i \in DOMAIN devices :
             /\ devices'[i].reviewPending => devices[i].reviewPending
             /\ requests' # requests =>
                  /\ devices'[i].billingExcluded = devices[i].billingExcluded
                  /\ devices'[i].customer = devices[i].customer]_fvars
    BY <1>2 DEF DecisionsKept
  <2> QED BY <1>3, <2>1, PTL DEF FleetSpec, DecisionsStand
<1> QED BY <1>4, <1>5 DEF ReviewStands
-----------------------------------------------------------------------------
(* Machines.                                                                *)
(* A site sends one report at a time, and its retries repeat it.            *)
OneReport ==
  /\ \A q, r \in requests : q.site = r.site /\ q.reading = r.reading
  /\ \A q \in requests : sending[q.site] # NotSending => sending[q.site].reading = q.reading
(* A report gives its machine's serial number, or none.                     *)
Honest(r) == r.serial \in {SerialOf[r.printer], NoSerial}

(* The printer identified at an address has a row, and the row carries its
   serial number and was the last one seen there. *)
Located ==
  \A h \in Hosts : identified[h] # NoOne =>
    /\ SerialOf[identified[h]] # NoSerial
    /\ \E i \in SeenLast(h) : devices[i].serial = SerialOf[identified[h]]

(* The row a request looked up is still the row of its machine.             *)
Meets(q) ==
  /\ q.device = NoDevice /\ q.reading.serial = NoSerial => identified[q.reading.host] = NoOne
  /\ q.device # NoDevice /\ q.reading.serial = NoSerial =>
       /\ devices[q.device].host = q.reading.host
       /\ identified[q.reading.host] # NoOne => devices[q.device].serial = SerialOf[identified[q.reading.host]]
  /\ q.device # NoDevice /\ q.reading.serial # NoSerial => devices[q.device].serial \in {NoSerial, q.reading.serial}

(* A reading of a machine known for certain went to its row.                *)
Sure == stored.sure => devices[stored.device].serial = SerialOf[stored.printer]

(* A serial number, once on a row, stays.                                   *)
SerialsStand == \A i \in DOMAIN devices : devices[i].serial \in {NoSerial, devices'[i].serial}

(* The inductive invariant.                                                 *)
MachinesInv ==
  /\ FleetTyping /\ OneReport /\ Located /\ Sure
  /\ \A c \in Customers : sending[c] # NotSending => Honest(sending[c].reading)
  /\ \A q \in requests : Honest(q.reading) /\ Meets(q)

(* Two printers do not share a serial number.                               *)
LEMMA SerialsUnique ==
  ASSUME NEW p \in Printers, NEW q \in Printers, p # q, SerialOf[p] # NoSerial
  PROVE  SerialOf[p] # SerialOf[q]
  BY FleetAssumption

(* The devices, where they are, and who was identified rest.                *)
LEMMA MachinesRest ==
  ASSUME MachinesInv, FleetTyping', UNCHANGED <<devices, later, stored, identified>>,
         OneReport',
         \A c \in Customers : sending'[c] # NotSending => sending'[c] = sending[c] \/ Honest(sending'[c].reading),
         \A q \in requests' : q \in requests \/ (Honest(q.reading) /\ Meets(q))
  PROVE  MachinesInv' /\ SerialsStand
<1>1. \A h : SeenLast(h)' = SeenLast(h)
  BY DEF SeenLast
<1>2. Located'
  BY <1>1 DEF MachinesInv, Located
<1>3. \A q : Meets(q)' = Meets(q)
  BY DEF Meets
<1>4. Sure' /\ SerialsStand
  BY DEF MachinesInv, Sure, SerialsStand
<1> QED BY <1>2, <1>3, <1>4 DEF MachinesInv, Honest

(* A row keeps its serial number and its address when staff decide about it. *)
LEMMA MachinesDecided ==
  ASSUME MachinesInv, FleetTyping', UNCHANGED <<sending, requests, later, stored, identified>>,
         DOMAIN devices' = DOMAIN devices,
         \A i \in DOMAIN devices : devices'[i].serial = devices[i].serial /\ devices'[i].host = devices[i].host
  PROVE  MachinesInv' /\ SerialsStand
<1>1. \A h : SeenLast(h)' = SeenLast(h)
  BY DEF SeenLast
<1>2. \A h, i : i \in SeenLast(h) => i \in DOMAIN devices
  BY DEF SeenLast
<1>3. Located'
  BY <1>1, <1>2 DEF MachinesInv, Located
<1>4. ASSUME NEW q \in requests PROVE Meets(q)'
  BY RequestTyped DEF MachinesInv, Meets
<1>5. OneReport'
  BY DEF MachinesInv, OneReport
<1>6. stored.sure => stored.device \in DOMAIN devices
  BY DEF MachinesInv, FleetTyping, FleetTypeOK, NothingStored
<1>7. Sure' /\ SerialsStand
  BY <1>6 DEF MachinesInv, Sure, SerialsStand
<1> QED BY <1>3, <1>4, <1>5, <1>7 DEF MachinesInv, Honest

(* A store puts a reading on the row of its machine.                        *)
LEMMA StoreMachines ==
  ASSUME MachinesInv, FleetTyping', NEW q \in requests, NEW answered \in BOOLEAN, Store(q, answered)
  PROVE  MachinesInv' /\ SerialsStand
<1> DEFINE s == StoredAt(q)
           r == q.reading
           h == q.reading.host
           p == q.reading.printer
<1>1. /\ DOMAIN devices' = (DOMAIN devices) \cup {s}
      /\ devices'[s] = StoredRow(q)
      /\ \A i \in (DOMAIN devices) \ {s} : devices'[i] = devices[i]
      /\ later' = {seen \in later : seen[2] # s} \cup {s} \X ((DOMAIN devices) \ {s})
      /\ stored' = [device |-> s, printer |-> p, sure |-> r.serial # NoSerial \/ identified[h] = p]
  BY StoredRows DEF MachinesInv
<1>2. /\ requests' = requests \ {q}
      /\ sending' = sending \/ sending' = [sending EXCEPT ![q.site] = NotSending]
      /\ identified' = IF r.serial = NoSerial THEN identified
                       ELSE [x \in Hosts |-> IF x = h THEN p ELSE IF identified[x] = p THEN NoOne ELSE identified[x]]
  BY DEF Store
<1>3. FleetTyping /\ h \in Hosts /\ p \in Printers /\ q.device \in {NoDevice} \cup DOMAIN devices /\ p # NoOne
      /\ q.site \in Customers
  BY RequestTyped, FleetAssumption DEF MachinesInv
<1>4. Honest(r) /\ Meets(q)
  BY DEF MachinesInv
<1>5. /\ StoredRow(q).host = h
      /\ r.serial # NoSerial => StoredRow(q).serial = r.serial
      /\ q.device # NoDevice /\ r.serial = NoSerial => StoredRow(q).serial = devices[q.device].serial
  <2>1. CASE q.device = NoDevice
    BY <1>3, <2>1, NewRowTyped DEF StoredRow
  <2>2. CASE q.device # NoDevice
    BY <1>3, <2>2, SeenTyped DEF StoredRow
  <2> QED BY <2>1, <2>2
<1>6. s \in DOMAIN devices => q.device = s
  BY <1>3, DevicesDomain DEF StoredAt
<1>7. q.device # NoDevice => s = q.device
  BY DEF StoredAt
<1> HIDE DEF s
\* The device stored is the one seen last at the address.
<1>8. s \in SeenLast(h)'
  <2>1. devices'[s].host = h /\ s \in DOMAIN devices'
    BY <1>1, <1>5
  <2>2. \A j \in (DOMAIN devices') \ {s} : <<s, j>> \in later'
    BY <1>1
  <2> QED BY <2>1, <2>2 DEF SeenLast
<1>9. ASSUME NEW g \in Hosts, g # h, NEW i \in SeenLast(g), i # s
      PROVE  i \in SeenLast(g)' /\ devices'[i].serial = devices[i].serial
  <2>1. i \in DOMAIN devices /\ devices[i].host = g
    BY DEF SeenLast
  <2>2. i \in DOMAIN devices' /\ devices'[i] = devices[i]
    BY <1>1, <1>9, <2>1
  <2>3. ASSUME NEW j \in (DOMAIN devices') \ {i}, devices'[j].host = g
        PROVE  <<i, j>> \in later'
    <3>1. j # s
      BY <1>1, <1>5, <1>9, <2>3
    <3>2. j \in (DOMAIN devices) \ {i} /\ devices[j].host = g
      BY <1>1, <2>3, <3>1
    <3>3. <<i, j>> \in later
      BY <3>2 DEF SeenLast
    <3> QED BY <1>1, <3>1, <3>3
  <2> QED BY <2>1, <2>2, <2>3 DEF SeenLast
<1>10. ASSUME NEW i \in DOMAIN devices PROVE devices[i].serial \in {NoSerial, devices'[i].serial}
  <2>1. CASE i # s
    BY <1>1, <2>1
  <2>2. CASE i = s /\ r.serial = NoSerial
    <3>1. q.device = s /\ q.device # NoDevice
      BY <1>3, <1>6, <2>2, DevicesDomain DEF NoDevice
    <3> QED BY <1>1, <1>5, <2>2, <3>1
  <2>3. CASE i = s /\ r.serial # NoSerial
    <3>1. q.device = s /\ q.device # NoDevice
      BY <1>3, <1>6, <2>3, DevicesDomain DEF NoDevice
    <3> QED BY <1>1, <1>4, <1>5, <2>3, <3>1 DEF Meets
  <2> QED BY <2>1, <2>2, <2>3
<1>11. Located'
  <2> SUFFICES ASSUME NEW x \in Hosts, identified'[x] # NoOne
               PROVE  /\ SerialOf[identified'[x]] # NoSerial
                      /\ \E i \in SeenLast(x)' : devices'[i].serial = SerialOf[identified'[x]]
    BY DEF Located
  <2>1. CASE r.serial # NoSerial
    <3>0. SerialOf[p] = r.serial
      BY <1>4, <2>1 DEF Honest
    <3>1. CASE x = h
      BY <1>1, <1>2, <1>5, <1>8, <2>1, <3>0, <3>1
    <3>2. CASE x # h
      <4>1. identified'[x] = identified[x] /\ identified[x] # p /\ identified[x] # NoOne
        BY <1>2, <2>1, <3>2
      <4>2. identified[x] \in Printers
        BY <1>3, <4>1 DEF FleetTyping, FleetTypeOK
      <4>3. PICK i \in SeenLast(x) : devices[i].serial = SerialOf[identified[x]]
        BY <4>1 DEF MachinesInv, Located
      <4>4. SerialOf[identified[x]] # NoSerial
        BY <4>1 DEF MachinesInv, Located
      <4>5. SerialOf[identified[x]] # SerialOf[p]
        BY <1>3, <4>1, <4>2, <4>4, SerialsUnique
      <4>6. i # s
        <5>1. i \in DOMAIN devices
          BY DEF SeenLast
        <5>2. i = q.device => i # NoDevice
          BY <1>3, <5>1, DevicesDomain DEF NoDevice
        <5>3. i = q.device => devices[i].serial \in {NoSerial, r.serial}
          BY <1>4, <2>1, <5>2 DEF Meets
        <5> QED BY <1>6, <3>0, <4>3, <4>4, <4>5, <5>1, <5>3
      <4>7. i \in SeenLast(x)' /\ devices'[i].serial = devices[i].serial
        BY <1>9, <3>2, <4>6
      <4> QED BY <4>1, <4>3, <4>4, <4>7
    <3> QED BY <3>1, <3>2
  <2>2. CASE r.serial = NoSerial
    <3>0. identified' = identified
      BY <1>2, <2>2
    <3>1. SerialOf[identified[x]] # NoSerial
      BY <3>0 DEF MachinesInv, Located
    <3>2. CASE x = h
      <4>1. q.device # NoDevice /\ devices[q.device].serial = SerialOf[identified[x]]
        BY <1>4, <2>2, <3>0, <3>2 DEF Meets
      <4>2. devices'[s].serial = SerialOf[identified[x]]
        BY <1>1, <1>5, <2>2, <4>1
      <4> QED BY <1>8, <3>0, <3>1, <3>2, <4>2
    <3>3. CASE x # h
      <4>1. PICK i \in SeenLast(x) : devices[i].serial = SerialOf[identified[x]]
        BY <3>0 DEF MachinesInv, Located
      <4>2. i \in DOMAIN devices /\ devices[i].host = x
        BY DEF SeenLast
      <4>3. i = q.device => i # NoDevice
        BY <1>3, <4>2, DevicesDomain DEF NoDevice
      <4>4. i # s
        BY <1>4, <1>6, <2>2, <3>3, <4>2, <4>3 DEF Meets
      <4>5. i \in SeenLast(x)' /\ devices'[i].serial = devices[i].serial
        BY <1>9, <3>3, <4>4
      <4> QED BY <3>0, <3>1, <4>1, <4>5
    <3> QED BY <3>2, <3>3
  <2> QED BY <2>1, <2>2
<1>12. ASSUME NEW o \in requests' PROVE Honest(o.reading) /\ Meets(o)'
  <2>1. o \in requests /\ o.reading = r /\ Meets(o)
    BY <1>2 DEF MachinesInv, OneReport
  <2>2. o.device \in {NoDevice} \cup DOMAIN devices
    BY <1>3, <2>1, RequestTyped
  <2>3. CASE r.serial = NoSerial
    <3>1. identified' = identified
      BY <1>2, <2>3
    <3>2. CASE o.device = NoDevice
      <4>1. identified'[o.reading.host] = NoOne
        BY <2>1, <2>3, <3>1, <3>2 DEF Meets
      <4> QED BY <1>4, <2>1, <2>3, <3>2, <4>1 DEF Meets
    <3>3. CASE o.device # NoDevice
      <4>1. o.device = s => q.device = s /\ q.device # NoDevice
        BY <1>6, <2>2, <3>3
      <4>2. devices'[o.device].host = h /\ devices'[o.device].serial = devices[o.device].serial
        BY <1>1, <1>5, <2>1, <2>2, <2>3, <3>3, <4>1 DEF Meets
      <4>3. identified'[o.reading.host] # NoOne => devices'[o.device].serial = SerialOf[identified'[o.reading.host]]
        BY <2>1, <2>3, <3>1, <3>3, <4>2 DEF Meets
      <4> QED BY <1>4, <2>1, <2>3, <3>3, <4>2, <4>3 DEF Meets
    <3>4. Meets(o)'
      BY <3>2, <3>3
    <3> QED BY <1>4, <2>1, <3>4
  <2>4. CASE r.serial # NoSerial
    <3>1. o.device # NoDevice => devices'[o.device].serial \in {NoSerial, r.serial}
      BY <1>1, <1>5, <2>1, <2>2, <2>4 DEF Meets
    <3>2. Meets(o)'
      BY <2>1, <2>4, <3>1 DEF Meets
    <3> QED BY <1>4, <2>1, <3>2
  <2> QED BY <2>3, <2>4
<1>13. OneReport'
  <2>1. \A o \in requests' : o.site \in Customers /\ (sending'[o.site] # NotSending => sending'[o.site] = sending[o.site])
    BY <1>2, <1>3, RequestTyped DEF FleetTyping
  <2> QED BY <1>2, <2>1 DEF MachinesInv, OneReport
<1>14. \A c \in Customers : sending'[c] # NotSending => Honest(sending'[c].reading)
  BY <1>2, <1>3 DEF MachinesInv, FleetTyping
<1>15. Sure'
  <2> SUFFICES ASSUME r.serial # NoSerial \/ identified[h] = p
               PROVE  devices'[s].serial = SerialOf[p]
    BY <1>1 DEF Sure
  <2>1. CASE r.serial # NoSerial
    BY <1>1, <1>4, <1>5, <2>1 DEF Honest
  <2>2. CASE r.serial = NoSerial
    <3>1. q.device # NoDevice /\ devices[q.device].serial = SerialOf[p]
      BY <1>3, <1>4, <2>2 DEF Meets
    <3> QED BY <1>1, <1>5, <2>2, <3>1
  <2> QED BY <2>1, <2>2
<1> QED BY <1>10, <1>11, <1>12, <1>13, <1>14, <1>15 DEF MachinesInv, SerialsStand, Honest

(* Every step keeps the invariant.                                          *)
LEMMA MachinesStep ==
  ASSUME ~Overlap, MachinesInv, [FleetNext]_fvars
  PROVE  MachinesInv' /\ SerialsStand
<1>0. FleetTyping /\ FleetTyping'
  BY FleetTypeStep DEF MachinesInv
<1>1. ASSUME NEW p \in Printers, NEW h \in Hosts \cup {Gone}, MovePrinter(p, h)
      PROVE  MachinesInv' /\ SerialsStand
  <2>1. OneReport'
    BY <1>1 DEF MovePrinter, MachinesInv, OneReport
  <2> QED BY <1>0, <1>1, <2>1, MachinesRest DEF MovePrinter
<1>2. ASSUME NEW p \in Printers, NEW s \in Serials, NEW k \in BOOLEAN, PollPrinter(p, s, k)
      PROVE  MachinesInv' /\ SerialsStand
  <2>1. \A c \in Customers : c # SiteOf[p] => sending'[c] = sending[c]
    BY <1>0, <1>2 DEF PollPrinter, FleetTyping
  <2>2. SiteOf[p] \in Customers /\ sending'[SiteOf[p]].reading.serial = s /\ sending'[SiteOf[p]].reading.printer = p
    BY <1>0, <1>2, FleetAssumption DEF PollPrinter, FleetTyping
  <2>3. Honest(sending'[SiteOf[p]].reading)
    BY <1>2, <2>2 DEF PollPrinter, Honest
  <2>4. OneReport'
    <3>1. \A q \in requests : q.site # SiteOf[p] /\ q.site \in Customers
      BY <1>0, <1>2, RequestTyped DEF PollPrinter
    <3> QED BY <1>2, <2>1, <3>1 DEF PollPrinter, MachinesInv, OneReport
  <2> QED BY <1>0, <1>2, <2>1, <2>3, <2>4, MachinesRest DEF PollPrinter
<1>3. ASSUME NEW c \in Customers, Attempt(c) PROVE MachinesInv' /\ SerialsStand
  <2> DEFINE r == sending[c].reading
             new == [site |-> c, reading |-> r, device |-> Lookup(r), attempt |-> sending[c].attempts + 1]
  <2>1. requests' = requests \cup {new} /\ \A q \in requests : q.site = c
    BY <1>3 DEF Attempt
  <2>2. sending[c] # NotSending /\ r \in Reading /\ r.host \in Hosts
    BY <1>0, <1>3, SendingTyped DEF Attempt, Reading
  <2>3. \A d \in Customers : d # c => sending'[d] = sending[d]
    BY <1>0, <1>3 DEF Attempt, FleetTyping
  <2>4. sending'[c].reading = r
    BY <1>0, <1>3, <2>2, SendingTyped DEF Attempt, FleetTyping
  <2>5. Honest(r)
    BY <2>2 DEF MachinesInv
  <2>6. Meets(new)
    <3>1. CASE r.serial = NoSerial
      <4>1. Lookup(r) = AtHost(r.host)
        BY <1>0, <3>1, LookupIsRight
      <4>2. Lookup(r) = NoDevice => identified[r.host] = NoOne
        BY <1>0, <2>2, <4>1, AtHostIsThere DEF MachinesInv, Located
      <4>3. ASSUME Lookup(r) # NoDevice
            PROVE  devices[Lookup(r)].host = r.host
        BY <1>0, <4>1, <4>3, AtHostIsThere DEF SeenLast
      <4>4. ASSUME Lookup(r) # NoDevice, identified[r.host] # NoOne
            PROVE  devices[Lookup(r)].serial = SerialOf[identified[r.host]]
        <5>1. PICK i \in SeenLast(r.host) : devices[i].serial = SerialOf[identified[r.host]]
          BY <2>2, <4>4 DEF MachinesInv, Located
        <5>2. AtHost(r.host) = i
          BY <1>0, SeenLastOne
        <5> QED BY <4>1, <5>1, <5>2
      <4> QED BY <3>1, <4>2, <4>3, <4>4 DEF Meets
    <3>2. CASE r.serial # NoSerial
      BY <1>0, <3>2, LookupIsRight DEF Meets
    <3> QED BY <3>1, <3>2
  <2>7. \A q \in requests : q.reading = r
    BY <2>1, <2>2 DEF MachinesInv, OneReport
  <2>8. OneReport'
    <3>1. \A q \in requests' : q.site = c /\ q.reading = r
      BY <2>1, <2>7
    <3> QED BY <2>4, <3>1 DEF OneReport
  <2>9. \A d \in Customers : sending'[d] # NotSending => sending'[d] = sending[d] \/ Honest(sending'[d].reading)
    BY <2>3, <2>4, <2>5
  <2>10. \A q \in requests' : q \in requests \/ (Honest(q.reading) /\ Meets(q))
    BY <2>1, <2>5, <2>6
  <2> QED BY <1>0, <1>3, <2>8, <2>9, <2>10, MachinesRest DEF Attempt
<1>4. ASSUME NEW c \in Customers, GiveUp(c) PROVE MachinesInv' /\ SerialsStand
  <2>1. \A d \in Customers : sending'[d] # NotSending => sending'[d] = sending[d]
    BY <1>0, <1>4 DEF GiveUp, FleetTyping
  <2>2. OneReport'
    BY <1>0, <1>4, <2>1, RequestTyped DEF GiveUp, MachinesInv, OneReport
  <2> QED BY <1>0, <1>4, <2>1, <2>2, MachinesRest DEF GiveUp
<1>5. ASSUME NEW q \in requests, StoreFails(q) PROVE MachinesInv' /\ SerialsStand
  <2>1. requests' \subseteq requests
    BY <1>5 DEF StoreFails
  <2>2. OneReport'
    BY <1>5, <2>1 DEF StoreFails, MachinesInv, OneReport
  <2> QED BY <1>0, <1>5, <2>1, <2>2, MachinesRest DEF StoreFails
<1>6. ASSUME NEW q \in requests, NEW answered \in BOOLEAN, Store(q, answered)
      PROVE  MachinesInv' /\ SerialsStand
  BY <1>0, <1>6, StoreMachines
<1>7. ASSUME NEW i \in DOMAIN devices, NEW excluded \in BOOLEAN, Decide(i, excluded)
      PROVE  MachinesInv' /\ SerialsStand
  <2>1. devices \in Seq(Row)
    BY <1>0 DEF FleetTyping, FleetTypeOK
  <2>2. \A j \in DOMAIN devices : devices'[j].serial = devices[j].serial /\ devices'[j].host = devices[j].host
    BY <1>7, <2>1 DEF Decide, Row
  <2> QED BY <1>0, <1>7, <2>1, <2>2, MachinesDecided DEF Decide
<1>8. ASSUME NEW i \in DOMAIN devices, NEW c \in Customers \cup {NoOne}, Assign(i, c)
      PROVE  MachinesInv' /\ SerialsStand
  <2>1. devices \in Seq(Row)
    BY <1>0 DEF FleetTyping, FleetTypeOK
  <2>2. \A j \in DOMAIN devices : devices'[j].serial = devices[j].serial /\ devices'[j].host = devices[j].host
    BY <1>8, <2>1 DEF Assign, Row
  <2> QED BY <1>0, <1>8, <2>1, <2>2, MachinesDecided DEF Assign
<1>9. CASE UNCHANGED fvars
  <2>1. OneReport'
    BY <1>9 DEF fvars, MachinesInv, OneReport
  <2> QED BY <1>0, <1>9, <2>1, MachinesRest DEF fvars
<1> QED BY <1>1, <1>2, <1>3, <1>4, <1>5, <1>6, <1>7, <1>8, <1>9 DEF FleetNext

(* While requests of one site do not overlap, the readings of two machines
   never meet in one row (ingest.service.ts upsertDevice). *)
THEOREM MachinesApart == ASSUME ~Overlap PROVE FleetSpec => MachinesStayApart
<1>1. FleetInit => MachinesInv
  <2>1. FleetInit => FleetTyping
    BY FleetTypeInit
  <2>2. FleetInit => OneReport /\ Located /\ Sure /\ \A c \in Customers : sending[c] = NotSending
    BY DEF FleetInit, OneReport, Located, Sure, NothingStored
  <2>3. FleetInit => requests = {}
    BY DEF FleetInit
  <2> QED BY <2>1, <2>2, <2>3 DEF MachinesInv
<1>2. MachinesInv /\ [FleetNext]_fvars => MachinesInv' /\ SerialsStand
  BY MachinesStep
<1>3. MachinesInv /\ MachinesInv' /\ [FleetNext]_fvars =>
        [/\ stored'.sure => devices'[stored'.device].serial = SerialOf[stored'.printer]
         /\ \A i \in DOMAIN devices : devices[i].serial \in {NoSerial, devices'[i].serial}]_fvars
  BY <1>2 DEF MachinesInv, Sure, SerialsStand
<1> QED BY <1>1, <1>2, <1>3, PTL DEF FleetSpec, MachinesStayApart
------------------------------------------------------------------------------
(* Notifications.                                                           *)

(* Which announcements of an issue are still to come from the sync that     *)
(* created its row.                                                         *)
BeforeStaffMail == {"upsert", "digest"}
BeforeClientMail == {"upsert", "digest", "clients"}
BeforeTickets == {"upsert", "digest", "clients", "automate"}
ToTicket(s, k) ==
  k \in sync[s].new /\ (sync[s].pc \in BeforeTickets \/ k \in sync[s].todo)

(* The unique key gives each row one creator, and a creator that has not    *)
(* come to an announcement yet is sure that nobody made it.                 *)
OneCreator ==
  \A s, t \in Syncs, k \in Issues : (k \in sync[s].new /\ k \in sync[t].new) => s = t
NotYetAnnounced ==
  \A k \in Issues :
    /\ rows[k] = "none" => staffMail[k] = 0 /\ clientMail[k] = 0 /\ tickets[k] = 0
    /\ \A s \in Syncs : k \in sync[s].new =>
         /\ sync[s].pc \in BeforeStaffMail => staffMail[k] = 0
         /\ sync[s].pc \in BeforeClientMail => clientMail[k] = 0
         /\ ToTicket(s, k) => tickets[k] = 0
SyncShape ==
  \A s \in Syncs :
    /\ sync[s].pc \in {"idle", "existing"} => sync[s].new = {}
    /\ sync[s].pc = "open" => sync[s].todo \subseteq sync[s].new
    /\ \A k \in sync[s].new : rows[k] # "none"
AnnouncedInv ==
  NotificationsTypeOK /\ OneCreator /\ NotYetAnnounced /\ SyncShape /\ AnnouncedOnce

(* While nothing failed and no preference changed, a row that has no ticket *)
(* yet is on the list of the sync that created it.                          *)
Undisturbed == count["failures"] = 0 /\ count["switches"] = 0
OnItsWay ==
  Undisturbed => /\ prefs.tickets
                 /\ \A k \in TicketTypes : rows[k] # "none" =>
                      tickets[k] = 1 \/ \E s \in Syncs : ToTicket(s, k)
TicketsInv == AnnouncedInv /\ OnItsWay

(* Type correctness is an invariant of its own: no step writes a value of   *)
(* another shape (syncNotifications and what it calls).                     *)
LEMMA InitTyped == NotificationsInit => NotificationsTypeOK
BY NotificationsAssumption
DEF NotificationsInit, NotificationsTypeOK, Idle, SyncState, RowStatus, Counted, Syncs

(* A step of one sync leaves the others where they are.                     *)
LEMMA Moved ==
  ASSUME sync \in [Syncs -> SyncState], NEW s \in Syncs, NEW r \in SyncState,
         sync' = [sync EXCEPT ![s] = r]
  PROVE  /\ sync' \in [Syncs -> SyncState] /\ sync'[s] = r
         /\ \A t \in Syncs \ {s} : sync'[t] = sync[t]
OBVIOUS
(* The state of no sync is a state of a sync.                               *)
LEMMA IdleTyped == Idle \in SyncState
BY DEF Idle, SyncState

(* What each step of a sync does to it.                                     *)
LEMMA CollectMoves ==
  ASSUME NotificationsTypeOK, NEW s \in Syncs, Collect(s)
  PROVE  /\ sync' \in [Syncs -> SyncState]
         /\ \A t \in Syncs \ {s} : sync'[t] = sync[t]
         /\ sync'[s].pc = "existing" /\ sync'[s].new = {}
<1> DEFINE r == [Idle EXCEPT !.pc = "existing", !.current = detected]
<1>1. r \in SyncState /\ r.pc = "existing" /\ r.new = {}
  BY DEF Idle, SyncState, NotificationsTypeOK
<1>2. sync' = [sync EXCEPT ![s] = r]
  BY DEF Collect
<1> HIDE DEF r
<1> QED BY <1>1, <1>2, Moved DEF NotificationsTypeOK
(* What it is to create is none of what it knows.                           *)
LEMMA ReadExistingMoves ==
  ASSUME NotificationsTypeOK, NEW s \in Syncs, ReadExisting(s)
  PROVE  /\ sync' \in [Syncs -> SyncState]
         /\ \A t \in Syncs \ {s} : sync'[t] = sync[t]
         /\ sync'[s].pc = "upsert" /\ sync'[s].new = sync[s].new
         /\ sync'[s].todo \cap sync'[s].known = {}
<1> DEFINE r == [sync[s] EXCEPT !.pc = "upsert", !.todo = Missing(s),
                                !.known = {k \in Issues : rows[k] # "none"},
                                !.open = {k \in Issues : rows[k] = "open"}]
<1>1. sync[s] \in SyncState /\ Missing(s) \subseteq Issues
  BY DEF NotificationsTypeOK, Missing, SyncState
<1>2. r \in SyncState /\ r.pc = "upsert" /\ r.new = sync[s].new
  BY <1>1 DEF SyncState
<1>3. r.todo \cap r.known = {}
  BY <1>1 DEF Missing, SyncState
<1>4. sync' = [sync EXCEPT ![s] = r]
  BY DEF ReadExisting
<1> HIDE DEF r
<1> QED BY <1>2, <1>3, <1>4, Moved DEF NotificationsTypeOK
(* A row of its own is on the list; a lost race ends the sync.              *)
LEMMA CreateRowMoves ==
  ASSUME NotificationsTypeOK, NEW s \in Syncs, NEW k \in Issues, CreateRow(s, k)
  PROVE  /\ sync' \in [Syncs -> SyncState]
         /\ \A t \in Syncs \ {s} : sync'[t] = sync[t]
         /\ \/ /\ rows[k] = "none" /\ rows' = [rows EXCEPT ![k] = "open"]
               /\ sync'[s].pc = "upsert" /\ sync'[s].new = sync[s].new \cup {k}
               /\ sync'[s].todo = sync[s].todo \ {k} /\ sync'[s].known = sync[s].known
               /\ UNCHANGED count
            \/ /\ sync'[s] = Idle /\ UNCHANGED rows /\ Counts("failures")
<1>1. CASE sync' = [sync EXCEPT ![s].todo = @ \ {k}, ![s].new = @ \cup {k}]
  <2> DEFINE r == [sync[s] EXCEPT !.todo = @ \ {k}, !.new = @ \cup {k}]
  <2>1. sync[s] \in SyncState
    BY DEF NotificationsTypeOK
  <2>2. /\ r \in SyncState /\ r.pc = sync[s].pc /\ r.new = sync[s].new \cup {k}
        /\ r.todo = sync[s].todo \ {k} /\ r.known = sync[s].known
    BY <2>1 DEF SyncState
  <2>3. sync' = [sync EXCEPT ![s] = r]
    BY <1>1
  <2> HIDE DEF r
  <2>4. /\ sync' \in [Syncs -> SyncState] /\ sync'[s] = r
        /\ \A t \in Syncs \ {s} : sync'[t] = sync[t]
    BY <2>2, <2>3, Moved DEF NotificationsTypeOK
  <2>5. sync'[s] = Idle \/ rows[k] = "none"
    BY <2>4, <1>1 DEF CreateRow, End, NotificationsTypeOK
  <2> QED BY <2>2, <2>4, <2>5 DEF CreateRow, End
<1>2. CASE End(s) /\ UNCHANGED rows /\ Counts("failures")
  BY <1>2, IdleTyped, Moved DEF End, NotificationsTypeOK
<1> QED BY <1>1, <1>2 DEF CreateRow
(* The next query of a sync that keeps what it read.                        *)
LEMMA GotoMoves ==
  ASSUME NotificationsTypeOK, NEW s \in Syncs, NEW next \in {"upsert", "digest", "clients", "automate", "open"}, Goto(s, next)
  PROVE  /\ sync' \in [Syncs -> SyncState]
         /\ \A t \in Syncs \ {s} : sync'[t] = sync[t]
         /\ sync'[s].pc = next /\ sync'[s].new = sync[s].new
         /\ sync'[s].todo = sync[s].todo /\ sync'[s].known = sync[s].known
<1> DEFINE r == [sync[s] EXCEPT !.pc = next]
<1>1. sync[s] \in SyncState
  BY DEF NotificationsTypeOK
<1>2. /\ r \in SyncState /\ r.pc = next /\ r.new = sync[s].new
      /\ r.todo = sync[s].todo /\ r.known = sync[s].known
  BY <1>1 DEF SyncState
<1>3. sync' = [sync EXCEPT ![s] = r]
  BY DEF Goto
<1> HIDE DEF r
<1> QED BY <1>2, <1>3, Moved DEF NotificationsTypeOK
(* A sync that ended holds no list.                                         *)
LEMMA EndMoves ==
  ASSUME NotificationsTypeOK, NEW s \in Syncs, End(s)
  PROVE  /\ sync' \in [Syncs -> SyncState]
         /\ \A t \in Syncs \ {s} : sync'[t] = sync[t]
         /\ sync'[s].pc = "idle" /\ sync'[s].new = {}
<1>1. Idle.pc = "idle" /\ Idle.new = {}
  BY DEF Idle
<1> QED BY <1>1, IdleTyped, Moved DEF End, NotificationsTypeOK
(* Tickets are to be opened for the issues of the list that open them.      *)
LEMMA AutomationMoves ==
  ASSUME NotificationsTypeOK, NEW s \in Syncs, ReadAutomation(s), prefs.tickets
  PROVE  /\ sync' \in [Syncs -> SyncState]
         /\ \A t \in Syncs \ {s} : sync'[t] = sync[t]
         /\ sync'[s].pc = "open" /\ sync'[s].new = sync[s].new
         /\ sync'[s].todo = sync[s].new \cap TicketTypes
<1> DEFINE r == [sync[s] EXCEPT !.pc = "open", !.todo = sync[s].new \cap TicketTypes]
<1>1. sync[s] \in SyncState
  BY DEF NotificationsTypeOK
<1>2. /\ r \in SyncState /\ r.pc = "open" /\ r.new = sync[s].new
      /\ r.todo = sync[s].new \cap TicketTypes
  BY <1>1 DEF SyncState
<1>3. sync' = [sync EXCEPT ![s] = r]
  BY DEF ReadAutomation
<1> HIDE DEF r
<1> QED BY <1>2, <1>3, Moved DEF NotificationsTypeOK
(* One issue less to open a ticket for.                                     *)
LEMMA OpenTicketMoves ==
  ASSUME NotificationsTypeOK, NEW s \in Syncs, NEW k \in Issues, OpenTicket(s, k)
  PROVE  /\ sync' \in [Syncs -> SyncState]
         /\ \A t \in Syncs \ {s} : sync'[t] = sync[t]
         /\ sync'[s].pc = "open" /\ sync'[s].new = sync[s].new
         /\ sync'[s].todo = sync[s].todo \ {k}
<1> DEFINE r == [sync[s] EXCEPT !.todo = @ \ {k}]
<1>1. sync[s] \in SyncState
  BY DEF NotificationsTypeOK
<1>2. /\ r \in SyncState /\ r.pc = sync[s].pc /\ r.new = sync[s].new
      /\ r.todo = sync[s].todo \ {k}
  BY <1>1 DEF SyncState
<1>3. sync' = [sync EXCEPT ![s] = r] /\ sync[s].pc = "open"
  BY DEF OpenTicket
<1> HIDE DEF r
<1> QED BY <1>2, <1>3, Moved DEF NotificationsTypeOK
-----------------------------------------------------------------------------
(* Every step of a sync keeps the types.  Rows are only created or resolved,*)
(* so the rows a sync created stay.                                         *)
LEMMA SyncStepTyped ==
  ASSUME NotificationsTypeOK, NEW s \in Syncs, SyncStep(s)
  PROVE  NotificationsTypeOK'
<1> USE NotificationsAssumption DEF NotificationsTypeOK, Counts, Counted
<1>a. \A t \in Syncs : sync[t] \in SyncState /\ sync[t].new \subseteq Issues
  BY DEF SyncState
<1>1. CASE Collect(s)
  <2>1. count' \in [Counted -> Nat] /\ UNCHANGED <<detected, data, prefs>>
    BY <1>1 DEF Collect, data
  <2>2. /\ sync' \in [Syncs -> SyncState] /\ sync'[s].pc = "existing" /\ sync'[s].new = {}
        /\ \A t \in Syncs \ {s} : sync'[t] = sync[t]
    BY <1>1, CollectMoves
  <2> QED BY <2>1, <2>2 DEF data
<1>2. CASE ReadExisting(s)
  <2>1. UNCHANGED <<detected, rows, staffMail, clientMail, tickets, prefs, count>>
    BY <1>2 DEF ReadExisting, data
  <2>2. /\ sync' \in [Syncs -> SyncState]
        /\ \A t \in Syncs \ {s} : sync'[t] = sync[t]
        /\ sync'[s].new = sync[s].new /\ sync'[s].todo \cap sync'[s].known = {}
    BY <1>2, ReadExistingMoves
  <2> QED BY <2>1, <2>2
<1>3. ASSUME NEW k \in Issues, CreateRow(s, k) PROVE NotificationsTypeOK'
  <2>1. /\ rows' \in [Issues -> RowStatus] /\ count' \in [Counted -> Nat]
        /\ UNCHANGED <<detected, staffMail, clientMail, tickets, prefs>>
    BY <1>3 DEF CreateRow, RowStatus
  <2>2. \A j \in Issues : rows[j] # "none" => rows'[j] # "none"
    BY <1>3 DEF CreateRow
  <2>3. \A t \in Syncs : /\ \A j \in sync'[t].new : rows'[j] # "none"
                         /\ sync'[t].pc = "upsert" => sync'[t].todo \cap sync'[t].known = {}
    <3>1. \A t \in Syncs \ {s} : sync'[t] = sync[t]
      BY <1>3, CreateRowMoves
    <3>2. CASE sync'[s] = Idle
      BY <3>1, <3>2, <2>2, <1>a DEF Idle
    <3>3. CASE sync'[s] # Idle
      <4>1. /\ rows' = [rows EXCEPT ![k] = "open"]
            /\ sync'[s].new = sync[s].new \cup {k} /\ sync[s].pc = "upsert"
            /\ sync'[s].todo = sync[s].todo \ {k} /\ sync'[s].known = sync[s].known
        BY <1>3, <3>3, CreateRowMoves DEF CreateRow
      <4>2. \A j \in sync'[s].new : rows'[j] # "none"
        BY <4>1, <2>2, <1>a
      <4>3. sync'[s].todo \cap sync'[s].known = {}
        BY <4>1
      <4> QED BY <3>1, <4>2, <4>3, <2>2, <1>a
    <3> QED BY <3>2, <3>3
  <2>4. sync' \in [Syncs -> SyncState]
    BY <1>3, CreateRowMoves
  <2> QED BY <2>1, <2>3, <2>4
<1>4. CASE AutoResolve(s)
  <2>1. /\ rows' \in [Issues -> RowStatus]
        /\ UNCHANGED <<detected, staffMail, clientMail, tickets, prefs, count>>
    BY <1>4 DEF AutoResolve, RowStatus
  <2>2. \A j \in Issues : rows[j] # "none" => rows'[j] # "none"
    BY <1>4 DEF AutoResolve
  <2>3. CASE End(s)
    BY <2>1, <2>2, <2>3, EndMoves, <1>a
  <2>4. CASE Goto(s, "digest") \/ Goto(s, "automate")
    BY <2>1, <2>2, <2>4, GotoMoves, <1>a
  <2> QED BY <1>4, <2>3, <2>4 DEF AutoResolve, AfterRows
<1>5. CASE SendDigest(s)
  <2>1. /\ staffMail' \in [Issues -> Nat]
        /\ UNCHANGED <<detected, rows, clientMail, tickets, prefs, count>>
    BY <1>5 DEF SendDigest
  <2>2. Goto(s, "clients") \/ Goto(s, "automate")
    BY <1>5 DEF SendDigest
  <2> QED BY <2>1, <2>2, GotoMoves
<1>6. CASE SendToClients(s)
  <2>1. /\ clientMail' \in [Issues -> Nat] /\ Goto(s, "automate")
        /\ UNCHANGED <<detected, rows, staffMail, tickets, prefs, count>>
    BY <1>6 DEF SendToClients
  <2> QED BY <2>1, GotoMoves
<1>7. CASE ReadAutomation(s)
  <2>1. UNCHANGED <<detected, data, prefs, count>>
    BY <1>7 DEF ReadAutomation
  <2>2. CASE prefs.tickets
    BY <1>7, <2>1, <2>2, AutomationMoves DEF data
  <2>3. CASE End(s)
    BY <2>1, <2>3, EndMoves DEF data
  <2> QED BY <1>7, <2>2, <2>3 DEF ReadAutomation
<1>8. ASSUME NEW k \in Issues, OpenTicket(s, k) PROVE NotificationsTypeOK'
  <2>1. /\ tickets' \in [Issues -> Nat] /\ count' \in [Counted -> Nat]
        /\ UNCHANGED <<detected, rows, staffMail, clientMail, prefs>>
    BY <1>8 DEF OpenTicket
  <2> QED BY <1>8, <2>1, OpenTicketMoves
<1>9. CASE TicketsDone(s)
  BY <1>9, EndMoves DEF TicketsDone, data
<1>10. CASE Fail(s)
  BY <1>10, EndMoves DEF Fail, data
<1> QED BY <1>1, <1>2, <1>3, <1>4, <1>5, <1>6, <1>7, <1>8, <1>9, <1>10 DEF SyncStep

(* The steps that are not a sync's keep the types too.                      *)
LEMMA NextTyped == NotificationsTypeOK /\ [NotificationsNext]_notificationsVars => NotificationsTypeOK'
<1> SUFFICES ASSUME NotificationsTypeOK, [NotificationsNext]_notificationsVars PROVE NotificationsTypeOK'
  OBVIOUS
<1>1. ASSUME NEW k \in Issues, Resolve(k) PROVE NotificationsTypeOK'
  BY <1>1 DEF Resolve, NotificationsTypeOK, RowStatus, SyncState
<1>2. ASSUME NEW k \in Issues, IssueChanges(k) PROVE NotificationsTypeOK'
  BY <1>2 DEF IssueChanges, NotificationsTypeOK, Counts, Counted, data
<1>3. CASE SetPreferences
  <2>1. PICK switch \in {"email", "tickets"} : prefs' = [prefs EXCEPT ![switch] = ~@]
    BY <1>3 DEF SetPreferences
  <2>2. prefs' \in [email : BOOLEAN, tickets : BOOLEAN]
    <3>1. CASE switch = "email"
      BY <2>1, <3>1 DEF NotificationsTypeOK
    <3>2. CASE switch = "tickets"
      BY <2>1, <3>2 DEF NotificationsTypeOK
    <3> QED BY <3>1, <3>2
  <2>3. count' \in [Counted -> Nat] /\ UNCHANGED <<detected, data, sync>>
    BY <1>3 DEF SetPreferences, NotificationsTypeOK, Counts, Counted
  <2> QED BY <2>2, <2>3 DEF NotificationsTypeOK, data
<1>4. CASE UNCHANGED notificationsVars
  BY <1>4 DEF notificationsVars, data, NotificationsTypeOK
<1> QED BY <1>1, <1>2, <1>3, <1>4, SyncStepTyped DEF NotificationsNext

(* The types hold in every reachable state.                                 *)
THEOREM NotificationsTyped == NotificationsSpec => []NotificationsTypeOK
BY InitTyped, NextTyped, PTL DEF NotificationsSpec
-----------------------------------------------------------------------------
(* A step that leaves a sync's list alone or empties it, and writes neither *)
(* rows nor announcements, keeps what is known of the announcements.        *)
LEMMA QuietStep ==
  ASSUME AnnouncedInv, UNCHANGED data,
         \A t \in Syncs : sync'[t] = sync[t] \/ (sync'[t].new = {} /\ sync'[t].pc # "open")
  PROVE  OneCreator' /\ NotYetAnnounced' /\ SyncShape' /\ AnnouncedOnce'
<1> USE DEF AnnouncedInv, data
<1>1. OneCreator'
  BY DEF OneCreator
<1>2. NotYetAnnounced'
  BY DEF NotYetAnnounced, ToTicket
<1>3. SyncShape'
  BY DEF SyncShape
<1>4. AnnouncedOnce'
  BY DEF AnnouncedOnce
<1> QED BY <1>1, <1>2, <1>3, <1>4

(* create adds the row to one list: nobody had announced the issue.         *)
LEMMA CreateRowAnnounced ==
  ASSUME AnnouncedInv, NEW s \in Syncs, NEW k \in Issues, CreateRow(s, k)
  PROVE  OneCreator' /\ NotYetAnnounced' /\ SyncShape' /\ AnnouncedOnce'
<1> USE DEF AnnouncedInv
<1>0. NotificationsTypeOK /\ UNCHANGED <<staffMail, clientMail, tickets>> /\ sync[s].pc = "upsert"
  BY DEF CreateRow
<1>1. /\ sync' \in [Syncs -> SyncState] /\ \A t \in Syncs \ {s} : sync'[t] = sync[t]
      /\ \A t \in Syncs : sync[t].new \subseteq Issues
  BY <1>0, CreateRowMoves DEF NotificationsTypeOK, SyncState
<1>2. CASE sync'[s] = Idle
  <2>1. UNCHANGED rows
    BY <1>0, <1>2, CreateRowMoves DEF Idle
  <2>2. sync'[s].new = {} /\ sync'[s].pc # "open"
    BY <1>2 DEF Idle
  <2> QED BY <1>0, <1>1, <2>1, <2>2, QuietStep DEF data
<1>3. CASE sync'[s] # Idle
  <2>1. /\ rows[k] = "none" /\ rows' = [rows EXCEPT ![k] = "open"]
        /\ sync'[s].pc = "upsert" /\ sync'[s].new = sync[s].new \cup {k}
    BY <1>0, <1>3, CreateRowMoves
  <2>2. staffMail[k] = 0 /\ clientMail[k] = 0 /\ tickets[k] = 0
    BY <2>1 DEF NotYetAnnounced
  <2>3. \A t \in Syncs : k \notin sync[t].new
    BY <2>1 DEF SyncShape
  <2>4. \A j \in Issues : (rows'[j] = "none" => rows[j] = "none") /\ (j # k => rows'[j] = rows[j])
    BY <1>0, <2>1 DEF NotificationsTypeOK
  <2>5. OneCreator'
    BY <1>1, <2>1, <2>3 DEF OneCreator
  <2>6. NotYetAnnounced'
    <3> SUFFICES ASSUME NEW j \in Issues
                 PROVE  /\ rows'[j] = "none" => staffMail[j] = 0 /\ clientMail[j] = 0 /\ tickets[j] = 0
                        /\ \A t \in Syncs : j \in sync'[t].new =>
                             /\ sync'[t].pc \in BeforeStaffMail => staffMail[j] = 0
                             /\ sync'[t].pc \in BeforeClientMail => clientMail[j] = 0
                             /\ ToTicket(t, j)' => tickets[j] = 0
      BY <1>0 DEF NotYetAnnounced
    <3>1. CASE j = k
      BY <2>2, <2>1, <3>1
    <3>2. CASE j # k
      <4>1. rows'[j] = "none" => staffMail[j] = 0 /\ clientMail[j] = 0 /\ tickets[j] = 0
        BY <2>4 DEF NotYetAnnounced
      <4>2. ASSUME NEW t \in Syncs, t # s, j \in sync'[t].new
            PROVE  /\ sync'[t].pc \in BeforeStaffMail => staffMail[j] = 0
                   /\ sync'[t].pc \in BeforeClientMail => clientMail[j] = 0
                   /\ ToTicket(t, j)' => tickets[j] = 0
        BY <1>1, <4>2 DEF NotYetAnnounced, ToTicket
      <4>3. j \in sync'[s].new => /\ staffMail[j] = 0 /\ clientMail[j] = 0 /\ tickets[j] = 0
        BY <1>0, <2>1, <3>2 DEF NotYetAnnounced, ToTicket, BeforeStaffMail, BeforeClientMail, BeforeTickets
      <4> QED BY <4>1, <4>2, <4>3
    <3> QED BY <3>1, <3>2
  <2>7. SyncShape'
    <3>1. \A j \in sync'[s].new : rows'[j] # "none"
      BY <1>1, <2>1, <2>4, <1>0 DEF SyncShape, NotificationsTypeOK
    <3> QED BY <1>1, <2>1, <2>4, <3>1 DEF SyncShape
  <2>8. AnnouncedOnce'
    BY <1>0 DEF AnnouncedOnce
  <2> QED BY <2>5, <2>6, <2>7, <2>8
<1> QED BY <1>2, <1>3

(* Resolving rows takes none away and announces nothing.                    *)
LEMMA AutoResolveAnnounced ==
  ASSUME AnnouncedInv, NEW s \in Syncs, AutoResolve(s)
  PROVE  OneCreator' /\ NotYetAnnounced' /\ SyncShape' /\ AnnouncedOnce'
<1> USE DEF AnnouncedInv
<1>1. /\ NotificationsTypeOK /\ UNCHANGED <<staffMail, clientMail, tickets>>
      /\ sync[s].pc = "upsert"
      /\ \A j \in Issues : rows'[j] = "none" <=> rows[j] = "none"
  BY DEF AutoResolve, NotificationsTypeOK
<1>2. /\ \A t \in Syncs \ {s} : sync'[t] = sync[t]
      /\ \A t \in Syncs : sync[t].new \subseteq Issues
      /\ \/ sync'[s].pc = "idle" /\ sync'[s].new = {}
         \/ sync'[s].pc \in {"digest", "automate"} /\ sync'[s].new = sync[s].new
  BY <1>1, GotoMoves, EndMoves DEF AutoResolve, AfterRows, NotificationsTypeOK, SyncState
<1>3. OneCreator'
  BY <1>2 DEF OneCreator
<1>4. NotYetAnnounced'
  <2>1. ASSUME NEW j \in Issues, j \in sync'[s].new
        PROVE  staffMail[j] = 0 /\ clientMail[j] = 0 /\ tickets[j] = 0
    BY <1>1, <1>2, <2>1
    DEF NotYetAnnounced, ToTicket, BeforeStaffMail, BeforeClientMail, BeforeTickets
  <2> QED BY <1>1, <1>2, <2>1 DEF NotYetAnnounced, ToTicket
<1>5. SyncShape'
  BY <1>1, <1>2 DEF SyncShape
<1>6. AnnouncedOnce'
  BY <1>1 DEF AnnouncedOnce
<1> QED BY <1>3, <1>4, <1>5, <1>6

(* A digest names an issue of its sync's list, which no digest named yet.   *)
LEMMA DigestAnnounced ==
  ASSUME AnnouncedInv, NEW s \in Syncs, SendDigest(s)
  PROVE  OneCreator' /\ NotYetAnnounced' /\ SyncShape' /\ AnnouncedOnce'
<1> USE DEF AnnouncedInv
<1>1. /\ NotificationsTypeOK /\ UNCHANGED <<rows, clientMail, tickets>> /\ sync[s].pc = "digest"
      /\ \A j \in Issues : staffMail'[j] = staffMail[j] \/
                             (staffMail'[j] = staffMail[j] + 1 /\ j \in sync[s].new)
  BY DEF SendDigest, NotificationsTypeOK
<1>2. /\ \A t \in Syncs \ {s} : sync'[t] = sync[t]
      /\ sync'[s].pc \in {"clients", "automate"} /\ sync'[s].new = sync[s].new
      /\ \A t \in Syncs : sync[t].new \subseteq Issues
  BY <1>1, GotoMoves DEF SendDigest, NotificationsTypeOK, SyncState
<1>3. OneCreator'
  BY <1>2 DEF OneCreator
<1>4. \A j \in Issues : j \in sync[s].new => staffMail[j] = 0 /\ clientMail[j] = 0 /\ tickets[j] = 0
  BY <1>1 DEF NotYetAnnounced, ToTicket, BeforeStaffMail, BeforeClientMail, BeforeTickets
<1>5. \A j \in Issues : j \notin sync[s].new => staffMail'[j] = staffMail[j]
  BY <1>1
<1>6. NotYetAnnounced'
  <2> SUFFICES ASSUME NEW j \in Issues
               PROVE  /\ rows[j] = "none" => staffMail'[j] = 0 /\ clientMail[j] = 0 /\ tickets[j] = 0
                      /\ \A t \in Syncs : j \in sync'[t].new =>
                           /\ sync'[t].pc \in BeforeStaffMail => staffMail'[j] = 0
                           /\ sync'[t].pc \in BeforeClientMail => clientMail[j] = 0
                           /\ ToTicket(t, j)' => tickets[j] = 0
    BY <1>1 DEF NotYetAnnounced
  <2>1. rows[j] = "none" => j \notin sync[s].new
    BY DEF SyncShape
  <2>2. ASSUME NEW t \in Syncs, t # s, j \in sync'[t].new
        PROVE  /\ sync'[t].pc \in BeforeStaffMail => staffMail'[j] = 0
               /\ sync'[t].pc \in BeforeClientMail => clientMail[j] = 0
               /\ ToTicket(t, j)' => tickets[j] = 0
    <3>1. j \notin sync[s].new
      BY <1>2, <2>2 DEF OneCreator
    <3> QED BY <1>2, <1>5, <2>2, <3>1 DEF NotYetAnnounced, ToTicket
  <2>3. sync'[s].pc \notin BeforeStaffMail
    BY <1>2 DEF BeforeStaffMail
  <2> QED BY <1>2, <1>4, <1>5, <2>1, <2>2, <2>3 DEF NotYetAnnounced
<1>7. SyncShape'
  BY <1>1, <1>2 DEF SyncShape
<1>8. AnnouncedOnce'
  BY <1>1, <1>4, <1>5 DEF AnnouncedOnce
<1> QED BY <1>3, <1>6, <1>7, <1>8
(* The customers' digests name issues no digest to them named yet.          *)
LEMMA ClientsAnnounced ==
  ASSUME AnnouncedInv, NEW s \in Syncs, SendToClients(s)
  PROVE  OneCreator' /\ NotYetAnnounced' /\ SyncShape' /\ AnnouncedOnce'
<1> USE DEF AnnouncedInv
<1>1. /\ NotificationsTypeOK /\ UNCHANGED <<rows, staffMail, tickets>> /\ sync[s].pc = "clients"
      /\ \A j \in Issues : clientMail'[j] = clientMail[j] \/
                             (clientMail'[j] = clientMail[j] + 1 /\ j \in sync[s].new)
  BY DEF SendToClients, NotificationsTypeOK
<1>2. /\ \A t \in Syncs \ {s} : sync'[t] = sync[t]
      /\ sync'[s].pc = "automate" /\ sync'[s].new = sync[s].new
      /\ \A t \in Syncs : sync[t].new \subseteq Issues
  BY <1>1, GotoMoves DEF SendToClients, NotificationsTypeOK, SyncState
<1>3. OneCreator'
  BY <1>2 DEF OneCreator
<1>4. \A j \in Issues : j \in sync[s].new => clientMail[j] = 0 /\ tickets[j] = 0
  BY <1>1 DEF NotYetAnnounced, ToTicket, BeforeClientMail, BeforeTickets
<1>5. \A j \in Issues : j \notin sync[s].new => clientMail'[j] = clientMail[j]
  BY <1>1
<1>6. NotYetAnnounced'
  <2> SUFFICES ASSUME NEW j \in Issues
               PROVE  /\ rows[j] = "none" => staffMail[j] = 0 /\ clientMail'[j] = 0 /\ tickets[j] = 0
                      /\ \A t \in Syncs : j \in sync'[t].new =>
                           /\ sync'[t].pc \in BeforeStaffMail => staffMail[j] = 0
                           /\ sync'[t].pc \in BeforeClientMail => clientMail'[j] = 0
                           /\ ToTicket(t, j)' => tickets[j] = 0
    BY <1>1 DEF NotYetAnnounced
  <2>1. rows[j] = "none" => j \notin sync[s].new
    BY DEF SyncShape
  <2>2. ASSUME NEW t \in Syncs, t # s, j \in sync'[t].new
        PROVE  /\ sync'[t].pc \in BeforeStaffMail => staffMail[j] = 0
               /\ sync'[t].pc \in BeforeClientMail => clientMail'[j] = 0
               /\ ToTicket(t, j)' => tickets[j] = 0
    <3>1. j \notin sync[s].new
      BY <1>2, <2>2 DEF OneCreator
    <3> QED BY <1>2, <1>5, <2>2, <3>1 DEF NotYetAnnounced, ToTicket
  <2>3. sync'[s].pc \notin BeforeStaffMail /\ sync'[s].pc \notin BeforeClientMail
    BY <1>2 DEF BeforeStaffMail, BeforeClientMail
  <2> QED BY <1>2, <1>4, <1>5, <2>1, <2>2, <2>3 DEF NotYetAnnounced
<1>7. SyncShape'
  BY <1>1, <1>2 DEF SyncShape
<1>8. AnnouncedOnce'
  BY <1>1, <1>4, <1>5 DEF AnnouncedOnce
<1> QED BY <1>3, <1>6, <1>7, <1>8
(* The tickets to open are those of the list, none opened yet.              *)
LEMMA AutomationAnnounced ==
  ASSUME AnnouncedInv, NEW s \in Syncs, ReadAutomation(s)
  PROVE  OneCreator' /\ NotYetAnnounced' /\ SyncShape' /\ AnnouncedOnce'
<1> USE DEF AnnouncedInv
<1>1. /\ NotificationsTypeOK /\ UNCHANGED data /\ sync[s].pc = "automate"
      /\ UNCHANGED <<rows, staffMail, clientMail, tickets>>
  BY DEF ReadAutomation, data
<1>2. CASE End(s)
  BY <1>1, <1>2, EndMoves, QuietStep
<1>3. CASE prefs.tickets
  <2>1. /\ \A t \in Syncs \ {s} : sync'[t] = sync[t]
        /\ sync'[s].pc = "open" /\ sync'[s].new = sync[s].new
        /\ sync'[s].todo \subseteq sync[s].new
    BY <1>1, <1>3, AutomationMoves
  <2>2. OneCreator'
    BY <2>1 DEF OneCreator
  <2>3. \A j \in Issues : j \in sync[s].new => tickets[j] = 0
    BY <1>1 DEF NotYetAnnounced, ToTicket, BeforeTickets
  <2>4. NotYetAnnounced'
    BY <1>1, <2>1, <2>3 DEF NotYetAnnounced, ToTicket, BeforeStaffMail, BeforeClientMail
  <2>5. SyncShape'
    BY <1>1, <2>1 DEF SyncShape
  <2> QED BY <1>1, <2>2, <2>4, <2>5 DEF AnnouncedOnce
<1> QED BY <1>2, <1>3 DEF ReadAutomation

(* A ticket is opened for an issue of the list, once each.                  *)
LEMMA OpenTicketAnnounced ==
  ASSUME AnnouncedInv, NEW s \in Syncs, NEW k \in Issues, OpenTicket(s, k)
  PROVE  OneCreator' /\ NotYetAnnounced' /\ SyncShape' /\ AnnouncedOnce'
<1> USE DEF AnnouncedInv
<1>1. /\ NotificationsTypeOK /\ UNCHANGED <<rows, staffMail, clientMail>>
      /\ sync[s].pc = "open" /\ k \in sync[s].todo /\ k \in sync[s].new
      /\ tickets'[k] = tickets[k] \/ tickets'[k] = tickets[k] + 1
      /\ \A j \in Issues \ {k} : tickets'[j] = tickets[j]
  BY DEF OpenTicket, NotificationsTypeOK, SyncShape
<1>2. /\ \A t \in Syncs \ {s} : sync'[t] = sync[t]
      /\ sync'[s].pc = "open" /\ sync'[s].new = sync[s].new
      /\ sync'[s].todo = sync[s].todo \ {k}
  BY <1>1, OpenTicketMoves
<1>3. OneCreator'
  BY <1>2 DEF OneCreator
<1>4. tickets[k] = 0 /\ rows[k] # "none"
  BY <1>1 DEF NotYetAnnounced, ToTicket, SyncShape
<1>5. NotYetAnnounced'
  <2> SUFFICES ASSUME NEW j \in Issues
               PROVE  /\ rows[j] = "none" => staffMail[j] = 0 /\ clientMail[j] = 0 /\ tickets'[j] = 0
                      /\ \A t \in Syncs : j \in sync'[t].new =>
                           /\ sync'[t].pc \in BeforeStaffMail => staffMail[j] = 0
                           /\ sync'[t].pc \in BeforeClientMail => clientMail[j] = 0
                           /\ ToTicket(t, j)' => tickets'[j] = 0
    BY <1>1 DEF NotYetAnnounced
  <2>1. ASSUME NEW t \in Syncs, j \in sync'[t].new, ToTicket(t, j)' PROVE tickets'[j] = 0
    <3>1. CASE t = s
      BY <1>1, <1>2, <2>1, <3>1 DEF NotYetAnnounced, ToTicket, BeforeTickets
    <3>2. CASE t # s
      <4>1. j # k
        BY <1>1, <1>2, <2>1, <3>2 DEF OneCreator
      <4> QED BY <1>1, <1>2, <2>1, <3>2, <4>1 DEF NotYetAnnounced, ToTicket
    <3> QED BY <3>1, <3>2
  <2>2. \A t \in Syncs : sync'[t].new = sync[t].new /\ sync'[t].pc = sync[t].pc
    BY <1>1, <1>2
  <2> QED BY <1>1, <1>4, <2>1, <2>2 DEF NotYetAnnounced
<1>6. SyncShape'
  BY <1>1, <1>2 DEF SyncShape
<1>7. AnnouncedOnce'
  BY <1>1, <1>4 DEF AnnouncedOnce
<1> QED BY <1>3, <1>5, <1>6, <1>7

(* No step announces anything twice.                                        *)
LEMMA NextAnnounced == AnnouncedInv /\ [NotificationsNext]_notificationsVars => AnnouncedInv'
<1> SUFFICES ASSUME AnnouncedInv, [NotificationsNext]_notificationsVars PROVE AnnouncedInv'
  OBVIOUS
<1>0. NotificationsTypeOK /\ NotificationsTypeOK'
  BY NextTyped DEF AnnouncedInv
<1> DEFINE Rest == OneCreator /\ NotYetAnnounced /\ SyncShape /\ AnnouncedOnce
<1>1. ASSUME NEW s \in Syncs, SyncStep(s) PROVE Rest'
  <2>1. CASE Collect(s)
    BY <1>0, <2>1, CollectMoves, QuietStep DEF Collect
  <2>2. CASE ReadExisting(s)
    <3>1. sync[s].new = {} /\ UNCHANGED data
      BY <2>2 DEF ReadExisting, AnnouncedInv, SyncShape
    <3> QED BY <1>0, <2>2, <3>1, ReadExistingMoves, QuietStep
  <2>3. CASE TicketsDone(s) \/ Fail(s)
    BY <1>0, <2>3, EndMoves, QuietStep DEF TicketsDone, Fail
  <2> QED BY <1>1, <2>1, <2>2, <2>3, CreateRowAnnounced, AutoResolveAnnounced,
             DigestAnnounced, ClientsAnnounced, AutomationAnnounced, OpenTicketAnnounced
          DEF SyncStep
<1>2. ASSUME NEW k \in Issues, Resolve(k) PROVE Rest'
  <2>1. /\ UNCHANGED <<sync, staffMail, clientMail, tickets>>
        /\ \A j \in Issues : rows'[j] = "none" <=> rows[j] = "none"
    BY <1>0, <1>2 DEF Resolve, NotificationsTypeOK
  <2>2. \A t \in Syncs : sync[t].new \subseteq Issues
    BY <1>0 DEF NotificationsTypeOK, SyncState
  <2>3. OneCreator' /\ AnnouncedOnce'
    BY <2>1 DEF OneCreator, AnnouncedOnce, AnnouncedInv
  <2>4. NotYetAnnounced'
    BY <2>1 DEF NotYetAnnounced, ToTicket, AnnouncedInv
  <2>5. SyncShape'
    BY <2>1, <2>2 DEF SyncShape, AnnouncedInv
  <2> QED BY <2>3, <2>4, <2>5
<1>3. ASSUME UNCHANGED <<data, sync>> PROVE Rest'
  <2>1. UNCHANGED data /\ \A t \in Syncs : sync'[t] = sync[t]
    BY <1>3
  <2> QED BY <2>1, QuietStep
<1>4. CASE UNCHANGED notificationsVars
  <2>1. UNCHANGED <<data, sync>>
    BY <1>4 DEF notificationsVars
  <2> QED BY <1>0, <1>3, <2>1 DEF AnnouncedInv
<1>5. CASE SetPreferences \/ \E k \in Issues : IssueChanges(k)
  <2>1. UNCHANGED <<data, sync>>
    BY <1>5 DEF SetPreferences, IssueChanges
  <2> QED BY <1>0, <1>3, <2>1 DEF AnnouncedInv
<1> QED BY <1>0, <1>1, <1>2, <1>4, <1>5 DEF NotificationsNext, AnnouncedInv

(* Nobody is at work at first and nothing was announced.                    *)
LEMMA InitAnnounced == NotificationsInit => AnnouncedInv
<1> SUFFICES ASSUME NotificationsInit PROVE AnnouncedInv
  OBVIOUS
<1>1. \A s \in Syncs : sync[s].new = {} /\ sync[s].pc = "idle"
  BY DEF NotificationsInit, Idle
<1>2. \A k \in Issues : staffMail[k] = 0 /\ clientMail[k] = 0 /\ tickets[k] = 0
  BY DEF NotificationsInit
<1>3. OneCreator /\ NotYetAnnounced /\ SyncShape /\ AnnouncedOnce
  BY <1>1, <1>2 DEF OneCreator, NotYetAnnounced, SyncShape, AnnouncedOnce
<1> QED BY <1>3, InitTyped DEF AnnouncedInv

(* However many syncs overlap, an issue is announced at most once.          *)
THEOREM NeverAnnouncedTwice == NotificationsSpec => []AnnouncedOnce
<1>1. AnnouncedInv => AnnouncedOnce
  BY DEF AnnouncedInv
<1> QED BY <1>1, InitAnnounced, NextAnnounced, PTL DEF NotificationsSpec
-----------------------------------------------------------------------------
(* Failures and switches are only ever counted up.                          *)
LEMMA StaysDisturbed ==
  ASSUME NotificationsTypeOK, NEW c \in Counted, Counts(c), Undisturbed'
  PROVE  Undisturbed /\ c \notin {"failures", "switches"}
<1>1. /\ count'[c] = count[c] + 1 /\ count[c] \in Nat
      /\ \A d \in Counted \ {c} : count'[d] = count[d]
  BY DEF NotificationsTypeOK, Counts
<1>2. count["failures"] \in Nat /\ count["switches"] \in Nat
  BY DEF NotificationsTypeOK, Counted
<1>3. CASE c \in {"failures", "switches"}
  BY <1>1, <1>3 DEF Undisturbed
<1>4. CASE c \notin {"failures", "switches"}
  BY <1>1, <1>4 DEF Undisturbed, Counted
<1> QED BY <1>3, <1>4

(* A step that creates no row and takes no issue off a list keeps every     *)
(* ticket on its way.                                                       *)
LEMMA StillOnItsWay ==
  ASSUME OnItsWay, Undisturbed, UNCHANGED <<prefs, tickets>>,
         \A k \in TicketTypes : rows[k] = "none" => rows'[k] = "none",
         \A t \in Syncs, k \in TicketTypes : ToTicket(t, k) => ToTicket(t, k)'
  PROVE  OnItsWay'
BY DEF OnItsWay

(* The creator of a row carries its ticket through every step of its sync.  *)
LEMMA SyncStepTickets ==
  ASSUME TicketsInv, NEW s \in Syncs, SyncStep(s), Undisturbed'
  PROVE  OnItsWay'
<1>0. /\ NotificationsTypeOK /\ NotYetAnnounced /\ SyncShape /\ OnItsWay
      /\ TicketTypes \subseteq Issues
  BY NotificationsAssumption DEF TicketsInv, AnnouncedInv
<1>1. CASE Collect(s)
  <2>1. Undisturbed /\ UNCHANGED <<rows, tickets, prefs>> /\ sync[s].new = {}
    BY <1>0, <1>1, StaysDisturbed DEF Collect, Counted, data, SyncShape
  <2>2. \A t \in Syncs \ {s} : sync'[t] = sync[t]
    BY <1>0, <1>1, CollectMoves
  <2> QED BY <1>0, <2>1, <2>2, StillOnItsWay DEF ToTicket
<1>2. CASE ReadExisting(s)
  <2>1. Undisturbed /\ UNCHANGED <<rows, tickets, prefs>> /\ sync[s].new = {}
    BY <1>0, <1>2 DEF ReadExisting, Undisturbed, data, SyncShape
  <2>2. \A t \in Syncs \ {s} : sync'[t] = sync[t]
    BY <1>0, <1>2, ReadExistingMoves
  <2> QED BY <1>0, <2>1, <2>2, StillOnItsWay DEF ToTicket
<1>3. ASSUME NEW k \in Issues, CreateRow(s, k) PROVE OnItsWay'
  <2>1. ~Counts("failures")
    BY <1>0, StaysDisturbed DEF Counted
  <2>2. /\ rows' = [rows EXCEPT ![k] = "open"] /\ Undisturbed
        /\ sync'[s].pc = "upsert" /\ sync'[s].new = sync[s].new \cup {k}
        /\ \A t \in Syncs \ {s} : sync'[t] = sync[t]
    BY <1>0, <1>3, <2>1, CreateRowMoves DEF Undisturbed
  <2>3. UNCHANGED <<tickets, prefs>> /\ sync[s].pc = "upsert"
    BY <1>3 DEF CreateRow
  <2>4. ToTicket(s, k)'
    BY <2>2 DEF ToTicket, BeforeTickets
  <2>5. \A t \in Syncs, j \in TicketTypes : ToTicket(t, j) => ToTicket(t, j)'
    BY <2>2, <2>3 DEF ToTicket, BeforeTickets
  <2>6. \A j \in TicketTypes \ {k} : rows'[j] = rows[j]
    BY <1>0, <2>2 DEF NotificationsTypeOK
  <2> QED BY <1>0, <2>2, <2>3, <2>4, <2>5, <2>6 DEF OnItsWay
<1>4. CASE AutoResolve(s)
  <2>1. /\ Undisturbed /\ UNCHANGED <<tickets, prefs>> /\ sync[s].pc = "upsert"
        /\ \A k \in TicketTypes : rows[k] = "none" => rows'[k] = "none"
    BY <1>0, <1>4 DEF AutoResolve, Undisturbed
  <2>2. CASE sync[s].new = {} /\ End(s)
    BY <1>0, <2>1, <2>2, EndMoves, StillOnItsWay DEF ToTicket
  <2>3. CASE Goto(s, "digest") \/ Goto(s, "automate")
    <3>1. /\ \A t \in Syncs \ {s} : sync'[t] = sync[t]
          /\ sync'[s].pc \in BeforeTickets /\ sync'[s].new = sync[s].new
      BY <1>0, <2>3, GotoMoves DEF BeforeTickets
    <3> QED BY <1>0, <2>1, <3>1, StillOnItsWay DEF ToTicket
  <2> QED BY <1>4, <2>2, <2>3 DEF AutoResolve, AfterRows
<1>5. CASE SendDigest(s) \/ SendToClients(s)
  <2>1. /\ Undisturbed /\ UNCHANGED <<rows, tickets, prefs>>
        /\ Goto(s, "clients") \/ Goto(s, "automate")
    BY <1>5 DEF SendDigest, SendToClients, Undisturbed
  <2>2. /\ \A t \in Syncs \ {s} : sync'[t] = sync[t]
        /\ sync'[s].pc \in BeforeTickets /\ sync'[s].new = sync[s].new
    BY <1>0, <2>1, GotoMoves DEF BeforeTickets
  <2> QED BY <1>0, <2>1, <2>2, StillOnItsWay DEF ToTicket
<1>6. CASE ReadAutomation(s)
  <2>1. Undisturbed /\ UNCHANGED <<rows, tickets, prefs>> /\ prefs.tickets /\ sync[s].pc = "automate"
    BY <1>0, <1>6 DEF ReadAutomation, Undisturbed, data, OnItsWay
  <2>2. /\ \A t \in Syncs \ {s} : sync'[t] = sync[t]
        /\ sync'[s].new = sync[s].new /\ sync'[s].todo = sync[s].new \cap TicketTypes
    BY <1>0, <1>6, <2>1, AutomationMoves
  <2> QED BY <1>0, <2>1, <2>2, StillOnItsWay DEF ToTicket
<1>7. ASSUME NEW k \in Issues, OpenTicket(s, k) PROVE OnItsWay'
  <2>1. ~Counts("failures")
    BY <1>0, StaysDisturbed DEF Counted
  <2>2. /\ Undisturbed /\ UNCHANGED <<rows, prefs>>
        /\ sync[s].pc = "open" /\ k \in sync[s].todo
        /\ tickets'[k] = tickets[k] + 1 /\ \A j \in Issues \ {k} : tickets'[j] = tickets[j]
    BY <1>0, <1>7, <2>1 DEF OpenTicket, Undisturbed, NotificationsTypeOK
  <2>3. tickets[k] = 0
    BY <1>0, <2>2 DEF NotYetAnnounced, ToTicket, SyncShape
  <2>4. /\ \A t \in Syncs \ {s} : sync'[t] = sync[t]
        /\ sync'[s].new = sync[s].new /\ sync'[s].todo = sync[s].todo \ {k}
        /\ sync'[s].pc = sync[s].pc
    BY <1>0, <1>7, <2>2, OpenTicketMoves
  <2>5. \A t \in Syncs, j \in TicketTypes \ {k} : ToTicket(t, j) => ToTicket(t, j)'
    BY <2>4 DEF ToTicket
  <2> QED BY <1>0, <2>2, <2>3, <2>5 DEF OnItsWay
<1>8. CASE TicketsDone(s)
  <2>1. /\ Undisturbed /\ UNCHANGED <<rows, tickets, prefs>> /\ End(s)
        /\ sync[s].pc = "open" /\ sync[s].todo = {}
    BY <1>8 DEF TicketsDone, Undisturbed, data
  <2>2. \A k \in TicketTypes : ~ToTicket(s, k)
    BY <2>1 DEF ToTicket, BeforeTickets
  <2> QED BY <1>0, <2>1, <2>2, EndMoves, StillOnItsWay DEF ToTicket
<1>9. ~Fail(s)
  BY <1>0, StaysDisturbed DEF Fail, Counted
<1> QED BY <1>1, <1>2, <1>3, <1>4, <1>5, <1>6, <1>7, <1>8, <1>9 DEF SyncStep

(* So does every other step.                                                *)
LEMMA NextTickets == TicketsInv /\ [NotificationsNext]_notificationsVars => TicketsInv'
<1> SUFFICES ASSUME TicketsInv, [NotificationsNext]_notificationsVars, Undisturbed' PROVE OnItsWay'
  BY NextAnnounced DEF TicketsInv, OnItsWay
<1>0. NotificationsTypeOK /\ OnItsWay /\ TicketTypes \subseteq Issues
  BY NotificationsAssumption DEF TicketsInv, AnnouncedInv
<1>1. ASSUME NEW k \in Issues, Resolve(k) PROVE OnItsWay'
  <2>1. /\ Undisturbed /\ UNCHANGED <<sync, tickets, prefs>>
        /\ \A j \in TicketTypes : rows[j] = "none" => rows'[j] = "none"
    BY <1>0, <1>1 DEF Resolve, Undisturbed, NotificationsTypeOK
  <2> QED BY <1>0, <2>1, StillOnItsWay DEF ToTicket
<1>2. ASSUME NEW k \in Issues, IssueChanges(k) PROVE OnItsWay'
  <2>1. Undisturbed /\ UNCHANGED <<sync, rows, tickets, prefs>>
    BY <1>0, <1>2, StaysDisturbed DEF IssueChanges, Counted, data
  <2> QED BY <1>0, <2>1, StillOnItsWay DEF ToTicket
<1>3. ~SetPreferences
  BY <1>0, StaysDisturbed DEF SetPreferences, Counted
<1>4. CASE UNCHANGED notificationsVars
  <2>1. Undisturbed /\ UNCHANGED <<sync, rows, tickets, prefs>>
    BY <1>4 DEF notificationsVars, data, Undisturbed
  <2> QED BY <1>0, <2>1, StillOnItsWay DEF ToTicket
<1> QED BY <1>1, <1>2, <1>3, <1>4, SyncStepTickets DEF NotificationsNext

LEMMA InitTickets == NotificationsInit => TicketsInv
<1> SUFFICES ASSUME NotificationsInit PROVE TicketsInv
  OBVIOUS
<1>1. AnnouncedInv
  BY InitAnnounced
<1>2. OnItsWay
  BY NotificationsAssumption DEF NotificationsInit, OnItsWay
<1> QED BY <1>1, <1>2 DEF TicketsInv

(* Unless something failed or the preferences changed, no row is left       *)
(* without its ticket.                                                      *)
THEOREM TicketsAreOpened == NotificationsSpec => []TicketsFollowRows
<1>1. NotificationsInit => TicketsInv
  BY InitTickets
<1>2. TicketsInv => TicketsFollowRows
  BY DEF TicketsInv, OnItsWay, Undisturbed, ToTicket, TicketsFollowRows
<1> QED BY <1>1, <1>2, NextTickets, PTL DEF NotificationsSpec
-----------------------------------------------------------------------------
(* All of the parts together: each, seen alone, takes its own steps or      *)
(* rests.                                                                   *)
LEMMA NotificationsPart == DeskSpec => NotificationsSpec
<1>1. DeskInit => NotificationsInit
  BY DEF DeskInit
<1>2. [DeskNext]_deskVars => [NotificationsNext]_notificationsVars
  BY DEF DeskNext, deskVars
<1> QED BY <1>1, <1>2, PTL DEF DeskSpec, NotificationsSpec

LEMMA TicketsPart == DeskSpec => TicketsSpec
<1>1. DeskInit => TicketsInit
  BY DEF DeskInit
<1>2. [DeskNext]_deskVars => [TicketsNext]_ticketsVars
  BY DEF DeskNext, deskVars
<1> QED BY <1>1, <1>2, PTL DEF DeskSpec, TicketsSpec

LEMMA FleetPart == DeskSpec => FleetSpec
<1>1. DeskInit => FleetInit
  BY DEF DeskInit
<1>2. [DeskNext]_deskVars => [FleetNext]_fvars
  BY DEF DeskNext, deskVars
<1> QED BY <1>1, <1>2, PTL DEF DeskSpec, FleetSpec

(* What lands on the desk: the types of all three, no issue announced       *)
(* twice, every row with its ticket, a ticket's thread kept, what staff     *)
(* decided of a device left to them and, where the reports of a site are    *)
(* served in turn, no two machines in one device.                           *)
THEOREM DeskHolds ==
  DeskSpec => /\ [](DeskTypesOK /\ AnnouncedOnce /\ TicketsFollowRows /\ TicketsKept)
              /\ ReviewStands
              /\ ~Overlap => MachinesStayApart
<1>1. NotificationsTypeOK /\ TicketsTypeOK /\ FleetTypeOK => DeskTypesOK
  BY DEF DeskTypesOK
<1>2. ~Overlap => (FleetSpec => MachinesStayApart)
  BY MachinesApart
<1> QED BY <1>1, <1>2, NotificationsPart, TicketsPart, FleetPart, NotificationsTyped, TicketsTyped,
           FleetTyped, NeverAnnouncedTwice, TicketsAreOpened, TicketsAreKept, ReviewIsKept, PTL
==============================================================================
