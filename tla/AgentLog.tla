------------------------------ MODULE AgentLog ------------------------------
(* An agent's log: the file of each day, which the control loop changes to at *)
(* its next tick, the uploads of the control loop ("Buscar log agora") and of *)
(* the main loop (at start and once a day), and AgentLogService, which keeps  *)
(* one entry a day, answers a request by any newer entry and prunes.          *)
EXTENDS Integers, FiniteSets, Functions

CONSTANTS
  Retention,  \* RETENTION_DAYS
  LastDay, MaxLines, MaxLogRequests, MaxLogFaults  \* bounds
ASSUME AgentLogAssumption ==
  {Retention, LastDay, MaxLines, MaxLogRequests, MaxLogFaults} \subseteq Nat /\ LastDay > 0

VARIABLES
  today,      \* the agent's local day
  logDay,     \* the day of the file that is open (p.logPath, p.logDate)
  lines,      \* lines written to each day's file
  uploads,    \* what each loop is uploading
  entries,    \* AgentLogEntry by date, and whether it is newer than logRequestedAt
  requested,  \* whether logRequestedAt is set
  requests, logFaults  \* requests made; lost calls, failed rotations, restarts
lvars == <<today, logDay, lines, uploads, entries, requested, requests, logFaults>>

LogDays == 1 .. LastDay
Loops == {"control", "main"}
NoUpload == [phase |-> "none", file |-> 0, lines |-> 0, date |-> 0]
Upload == [phase : {"none", "asked", "read", "sent"}, file : 0 .. LastDay, lines : 0 .. MaxLines,
           date : 0 .. LastDay]
LogFault == logFaults < MaxLogFaults /\ logFaults' = logFaults + 1
NoLogFault == UNCHANGED logFaults
-----------------------------------------------------------------------------
Midnight ==
  /\ today < LastDay /\ today' = today + 1
  /\ UNCHANGED <<logDay, lines, uploads, entries, requested, requests, logFaults>>
WriteLine ==
  /\ lines[logDay] < MaxLines /\ lines' = [lines EXCEPT ![logDay] = @ + 1]
  /\ UNCHANGED <<today, logDay, uploads, entries, requested, requests, logFaults>>

\* A tick of controlLoop begins with rotateLogIfNeeded, which may fail.
Rotate ==
  /\ logDay # today /\ uploads["control"] = NoUpload
  /\ \/ logDay' = today /\ NoLogFault
     \/ UNCHANGED logDay /\ LogFault
  /\ UNCHANGED <<today, lines, uploads, entries, requested, requests>>
\* New opens the day's file; what was being uploaded is given up.
RestartAgent ==
  /\ LogFault /\ logDay' = today /\ uploads' = [l \in Loops |-> NoUpload]
  /\ UNCHANGED <<today, lines, entries, requested, requests>>

\* Mutant: only a request before the first upload counts.
RequestPending_First == requested /\ DOMAIN entries = {}
\* hasPendingRequest.
RequestPending == requested /\ \A d \in DOMAIN entries : ~entries[d].newer
LogDate == today
\* checkLogRequest: the API says that a request is pending.
CheckLog ==
  /\ uploads["control"] = NoUpload /\ RequestPending
  /\ uploads' = [uploads EXCEPT !["control"].phase = "asked"]
  /\ UNCHANGED <<today, logDay, lines, entries, requested, requests, logFaults>>
\* Then, as uploadDailyLog does unasked, the file that is open is read, and
\* the day named when it is posted.
ReadLog(l) ==
  /\ uploads[l].phase = IF l = "control" THEN "asked" ELSE "none"
  /\ uploads' = [uploads EXCEPT ![l] =
       [phase |-> "read", file |-> logDay, lines |-> lines[logDay], date |-> 0]]
  /\ UNCHANGED <<today, logDay, lines, entries, requested, requests, logFaults>>
PostLog(l) ==
  /\ uploads[l].phase = "read"
  /\ uploads' = [uploads EXCEPT ![l].phase = "sent", ![l].date = LogDate]
  /\ UNCHANGED <<today, logDay, lines, entries, requested, requests, logFaults>>

Entry(u) == [file |-> u.file, lines |-> u.lines, newer |-> TRUE]
\* recordUpload, or the call is lost.
RecordUpload(l) ==
  /\ uploads[l].phase = "sent"
  /\ \/ /\ NoLogFault
        /\ entries' = [d \in DOMAIN entries \cup {uploads[l].date} |->
                        IF d = uploads[l].date THEN Entry(uploads[l]) ELSE entries[d]]
     \/ LogFault /\ UNCHANGED entries
  /\ uploads' = [uploads EXCEPT ![l] = NoUpload]
  /\ UNCHANGED <<today, logDay, lines, requested, requests>>

\* CustomersService.requestLog: logRequestedAt is now.
RequestLog ==
  /\ requests < MaxLogRequests /\ requests' = requests + 1 /\ requested' = TRUE
  /\ entries' = [d \in DOMAIN entries |-> [entries[d] EXCEPT !.newer = FALSE]]
  /\ UNCHANGED <<today, logDay, lines, uploads, logFaults>>

Outdated(d, now) == d < now - Retention
\* pruneOldLogs by the server's UTC day, which is the agent's or the next one.
PruneOldLogs ==
  \E now \in {today, today + 1} :
    LET kept == {d \in DOMAIN entries : ~Outdated(d, now)}
    IN /\ kept # DOMAIN entries /\ entries' = [d \in kept |-> entries[d]]
       /\ UNCHANGED <<today, logDay, lines, uploads, requested, requests, logFaults>>

AgentLogInit ==
  /\ today = 1 /\ logDay = 1 /\ lines = [d \in LogDays |-> 0]
  /\ uploads = [l \in Loops |-> NoUpload] /\ entries = [d \in {} |-> NoUpload]
  /\ requested = FALSE /\ requests = 0 /\ logFaults = 0
ControlStep == CheckLog \/ ReadLog("control") \/ PostLog("control") \/ RecordUpload("control")
AgentLogNext ==
  \/ Midnight \/ WriteLine \/ Rotate \/ RestartAgent \/ RequestLog \/ PruneOldLogs
  \/ CheckLog \/ \E l \in Loops : ReadLog(l) \/ PostLog(l) \/ RecordUpload(l)
AgentLogSpec == AgentLogInit /\ [][AgentLogNext]_lvars
\* The control loop ticks every two minutes, independent of the main loop.
AgentLogFairness == WF_lvars(ControlStep)
-----------------------------------------------------------------------------
AgentLogTypeOK ==
  /\ today \in LogDays /\ logDay \in 1 .. today /\ requested \in BOOLEAN
  /\ lines \in [LogDays -> 0 .. MaxLines] /\ uploads \in [Loops -> Upload]
  /\ requests \in 0 .. MaxLogRequests /\ logFaults \in 0 .. MaxLogFaults
  /\ DOMAIN entries \subseteq 1 .. today
  /\ \A d \in DOMAIN entries :
       /\ entries[d].file \in 1 .. today /\ entries[d].lines \in 0 .. lines[entries[d].file]
       /\ entries[d].newer \in BOOLEAN

(* "Buscar log agora" is answered: whatever calls are lost and however often  *)
(* the agent restarts, an entry newer than the request is stored, and stays   *)
(* that long (hasPendingRequest, checkLogRequest).                            *)
LogRequestAnswered == requested ~> (\E d \in DOMAIN entries : entries[d].newer)

(* Retention is counted in the server's days, entries are dated by the        *)
(* agent's: none that is younger than RETENTION_DAYS is pruned.               *)
LogsKept == [][\A d \in DOMAIN entries \ DOMAIN entries' : d + Retention <= today]_lvars

(* A log that was asked for reaches the panel, and none goes early.         *)
LogsReachPanel == LogsKept /\ LogRequestAnswered

(* "Date is the agent-local calendar day this content belongs to"             *)
(* (Client.UploadLog): a day's entry holds that day's file.                   *)
DayHoldsItsLog == \A d \in DOMAIN entries : entries[d].file = d

(* "The same-day upsert on the server makes any overlap between the two       *)
(* harmless" (run): a day's entry never falls back to an earlier state of the *)
(* file it holds.                                                             *)
OverlapHarmless ==
  [][\A d \in DOMAIN entries \cap DOMAIN entries' :
       entries'[d].file = entries[d].file => entries'[d].lines >= entries[d].lines]_lvars
=============================================================================
