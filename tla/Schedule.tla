------------------------------ MODULE Schedule ------------------------------
(***************************************************************************)
(* The task scheduler of core/schedule.go: the tasks table in SQLite, the  *)
(* tick goroutine of the pipeline process that fires due tasks into the    *)
(* inbound channel, and the calls that the MCP tool processes make on the  *)
(* same table while the tick is between two of its statements.             *)
(*                                                                         *)
(* One SQL statement, or one channel operation, is one atomic step.        *)
(***************************************************************************)
EXTENDS Naturals, FiniteSets

CONSTANTS
  Tasks,             \* the row ids that may ever be inserted
  NoTask,            \* "no row"
  Clients,           \* concurrent callers of Ack
  CronTasks,         \* rows with a cron_expr
  AckTasks,          \* rows with requires_ack
  Powers,            \* powers that own system tasks
  PowerTasks,        \* PowerTasks[p]: the system rows of power p
  Delays,            \* durations that Delay is called with, in clock units
  NextCronTime(_),   \* next activation strictly after a given time
  QueryLimit,        \* LIMIT of the due-task query
  InboundCap,        \* capacity of the inbound channel
  Faults,            \* whether SQL statements may fail
  MaxTime, MaxStarts \* bounds of the model, not of the code

Times == 0..MaxTime
SystemTasks == UNION {PowerTasks[p] : p \in Powers}

ASSUME ConstantsAssumption ==
  /\ NoTask \notin Tasks
  /\ CronTasks \subseteq Tasks /\ AckTasks \subseteq Tasks
  /\ PowerTasks \in [Powers -> SUBSET Tasks]
  /\ Delays \subseteq Nat
  /\ \A n \in Times : NextCronTime(n) \in Nat
  /\ QueryLimit \in Nat \ {0} /\ InboundCap \in Nat \ {0}
  /\ Faults \in BOOLEAN
  /\ MaxTime \in Nat /\ MaxStarts \in Nat \ {0}

VARIABLES
  status,   \* status[t]: the status column, "none" before the INSERT
  due,      \* due[t]: the scheduled_for column
  now,      \* wall clock
  proc,     \* life of the pipeline process
  tick,     \* where the tick goroutine is
  batch,    \* rows of the due-task query not read yet -> scheduled_for as read
  cur,      \* the row of the iteration in progress
  inbound,  \* number of messages queued in the inbound channel
  acking,   \* acking[c]: the task whose awaiting_ack client c has read
  syncing,  \* system rows that calls to SyncPowerSchedules have yet to insert
  starts,   \* number of process starts
  spent,    \* history: tasks fired since they were last allowed to fire
  lost      \* history: tasks whose last tick UPDATE was lost

table == <<status, due>>
loop  == <<tick, batch, cur>>
calls == <<acking, syncing>>
hist  == <<spent, lost>>
vars  == <<table, now, proc, loop, inbound, calls, starts, hist>>

Statuses == {"none", "pending", "running", "awaiting_ack", "done", "cancelled"}

TypeOK ==
  /\ status \in [Tasks -> Statuses]
  /\ due \in [Tasks -> Nat]
  /\ now \in Times
  /\ proc \in {"down", "up", "stopping", "cancelled"}
  /\ tick \in {"idle", "rows", "send", "finish"}
  /\ DOMAIN batch \subseteq Tasks /\ \A t \in DOMAIN batch : batch[t] \in Nat
  /\ cur \in Tasks \cup {NoTask}
  /\ inbound \in 0..InboundCap
  /\ acking \in [Clients -> Tasks \cup {NoTask}]
  /\ syncing \subseteq SystemTasks
  /\ starts \in 0..MaxStarts
  /\ spent \subseteq Tasks /\ lost \subseteq Tasks

Init ==
  /\ status = [t \in Tasks |-> "none"] /\ due = [t \in Tasks |-> 0]
  /\ now = 0 /\ proc = "down" /\ starts = 0 /\ inbound = 0
  /\ tick = "idle" /\ batch = [t \in {} |-> 0] /\ cur = NoTask
  /\ acking = [c \in Clients |-> NoTask] /\ syncing = {}
  /\ spent = {} /\ lost = {}

-----------------------------------------------------------------------------
(* The pipeline process.                                                   *)

TickIdle == tick' = "idle" /\ batch' = [t \in {} |-> 0] /\ cur' = NoTask

Running == {t \in Tasks : status[t] = "running"}

StartNoRecovery ==
  /\ proc = "down"
  /\ proc' = "up" /\ starts' = starts + 1
  /\ UNCHANGED <<table, now, loop, inbound, calls, hist>>

\* Start: rows left in "running" go back to "pending"; the error is ignored.
Start ==
  /\ proc = "down"
  /\ proc' = "up" /\ starts' = starts + 1
  /\ \/ /\ status' = [t \in Tasks |-> IF t \in Running THEN "pending" ELSE status[t]]
        /\ spent' = spent \ lost
        /\ lost' = {}
     \/ /\ Faults /\ Running # {}
        /\ lost' = lost \cup Running
        /\ UNCHANGED <<status, spent>>
  /\ UNCHANGED <<due, now, loop, inbound, calls>>

\* The process dies: what it held in memory, the channel included, is gone.
\* (MaxStarts bounds how often it ends, so that it can always start again.)
Crash ==
  /\ proc # "down" /\ starts < MaxStarts
  /\ proc' = "down" /\ inbound' = 0 /\ TickIdle
  /\ spent' = IF tick = "finish" THEN spent \ {cur} ELSE spent
  /\ UNCHANGED <<table, now, calls, starts, lost>>

\* Stop closes stopCh and waits; a cancelled context ends the loop as well.
RequestStop ==
  /\ starts < MaxStarts
  /\ proc = "up" /\ proc' \in {"stopping", "cancelled"}
  /\ UNCHANGED <<table, now, loop, inbound, calls, starts, hist>>

\* The tick goroutine sees the request, Stop returns and the process exits.
Exit ==
  /\ proc \in {"stopping", "cancelled"} /\ tick = "idle"
  /\ proc' = "down" /\ inbound' = 0
  /\ UNCHANGED <<table, now, loop, calls, starts, hist>>

-----------------------------------------------------------------------------
(* processDueTasks, a statement at a time.                                 *)

DueUnfiltered == {t \in Tasks : status[t] # "none" /\ due[t] <= now}

Due == {t \in Tasks : status[t] = "pending" /\ due[t] <= now}

Latest(S) ==
  /\ Cardinality(S) <= QueryLimit
  /\ S # Due => /\ Cardinality(S) = QueryLimit
                /\ \A t \in S, u \in Due \ S : due[t] >= due[u]

\* ORDER BY scheduled_for ASC LIMIT 10
Earliest(S) ==
  /\ Cardinality(S) <= QueryLimit
  /\ S # Due => /\ Cardinality(S) = QueryLimit
                /\ \A t \in S, u \in Due \ S : due[t] <= due[u]

\* The query, its rows materialised by ORDER BY. A tick that finds nothing changes
\* nothing.
Select ==
  /\ proc # "down" /\ tick = "idle"
  /\ \E S \in SUBSET Due :
       /\ S # {} /\ Earliest(S)
       /\ batch' = [t \in S |-> due[t]]
  /\ tick' = "rows"
  /\ UNCHANGED <<table, now, proc, cur, inbound, calls, starts, hist>>

\* An UPDATE ... WHERE id = ? whose error the tick ignores.
TickUpdate(t, s) ==
  \/ status' = [status EXCEPT ![t] = s] /\ lost' = lost
  \/ Faults /\ status' = status /\ lost' = lost \cup {t}

\* rows.Next, in order of scheduled_for ...
NextRow(t) ==
  /\ tick = "rows" /\ t \in DOMAIN batch
  /\ \A u \in DOMAIN batch : batch[t] <= batch[u]

\* ... whose Scan may fail: the row is passed over;
SkipRow(t) ==
  /\ Faults /\ NextRow(t)
  /\ batch' = [u \in DOMAIN batch \ {t} |-> batch[u]]
  /\ tick' = IF DOMAIN batch = {t} THEN "idle" ELSE "rows"
  /\ UNCHANGED <<table, now, proc, cur, inbound, calls, starts, hist>>

\* then "mark as running".
MarkRunning(t) ==
  /\ NextRow(t)
  /\ TickUpdate(t, "running")
  /\ cur' = t /\ batch' = [u \in DOMAIN batch \ {t} |-> batch[u]]
  /\ tick' = "send"
  /\ UNCHANGED <<due, now, proc, inbound, calls, starts, spent>>

\* case bus <- msg
Send ==
  /\ tick = "send" /\ inbound < InboundCap
  /\ inbound' = inbound + 1
  /\ spent' = spent \cup {cur}
  /\ tick' = "finish"
  /\ UNCHANGED <<table, now, proc, batch, cur, calls, starts, lost>>

\* case <-ctx.Done(): revert to pending and return
Revert ==
  /\ tick = "send" /\ proc = "cancelled"
  /\ TickUpdate(cur, "pending")
  /\ TickIdle
  /\ UNCHANGED <<due, now, proc, inbound, calls, starts, spent>>

FiredStatus(t) ==
  IF t \in AckTasks THEN "awaiting_ack"
  ELSE IF t \in CronTasks THEN "pending" ELSE "done"

\* Without an ack to wait for, a cron task is scheduled again, and may fire again.
FinishWrite(t) ==
  /\ status' = [status EXCEPT ![t] = FiredStatus(t)]
  /\ lost' = lost \ {t}
  /\ IF FiredStatus(t) = "pending"
     THEN due' = [due EXCEPT ![t] = NextCronTime(now)] /\ spent' = spent \ {t}
     ELSE UNCHANGED <<due, spent>>

FinishLost(t) ==
  /\ Faults
  /\ lost' = lost \cup {t}
  /\ UNCHANGED <<status, due, spent>>

\* The UPDATE after the send, and the end of the iteration.
Finish ==
  /\ tick = "finish"
  /\ FinishWrite(cur) \/ FinishLost(cur)
  /\ tick' = IF DOMAIN batch = {} THEN "idle" ELSE "rows"
  /\ cur' = NoTask
  /\ UNCHANGED <<now, proc, batch, inbound, calls, starts>>

-----------------------------------------------------------------------------
(* The other ends of the channel, and the clock.                           *)

ReceiveWhileUp ==
  /\ proc = "up" /\ inbound > 0
  /\ inbound' = inbound - 1
  /\ UNCHANGED <<table, now, proc, loop, calls, starts, hist>>

Receive ==
  /\ proc # "down" /\ inbound > 0
  /\ inbound' = inbound - 1
  /\ UNCHANGED <<table, now, proc, loop, calls, starts, hist>>

SourceSendUnbounded ==
  /\ proc # "down"
  /\ inbound' = inbound + 1
  /\ UNCHANGED <<table, now, proc, loop, calls, starts, hist>>

SourceSend ==
  /\ proc # "down" /\ inbound < InboundCap
  /\ inbound' = inbound + 1
  /\ UNCHANGED <<table, now, proc, loop, calls, starts, hist>>

Clock ==
  /\ now < MaxTime
  /\ now' = now + 1
  /\ UNCHANGED <<table, proc, loop, inbound, calls, starts, hist>>

-----------------------------------------------------------------------------
(* The calls of the rogue-scheduler and rogue-iam tool processes.          *)

Create(t, d) ==
  /\ t \notin SystemTasks /\ status[t] = "none"
  /\ status' = [status EXCEPT ![t] = "pending"]
  /\ due' = [due EXCEPT ![t] = d]
  /\ UNCHANGED <<now, proc, loop, inbound, calls, starts, hist>>

Cancel(t) ==
  /\ status[t] \in {"pending", "running"}
  /\ status' = [status EXCEPT ![t] = "cancelled"]
  /\ UNCHANGED <<due, now, proc, loop, inbound, calls, starts, hist>>

DelayUnguarded(t, d) ==
  /\ status[t] # "none"
  /\ due[t] + d <= MaxTime
  /\ status' = [status EXCEPT ![t] = "pending"]
  /\ due' = [due EXCEPT ![t] = @ + d]
  /\ spent' = spent \ {t}
  /\ UNCHANGED <<now, proc, loop, inbound, calls, starts, lost>>

\* scheduled_for moves by d from its old value, which may lie in the past.
Delay(t, d) ==
  /\ status[t] \in {"pending", "awaiting_ack"}
  /\ due[t] + d <= MaxTime
  /\ status' = [status EXCEPT ![t] = "pending"]
  /\ due' = [due EXCEPT ![t] = @ + d]
  /\ spent' = spent \ {t}
  /\ UNCHANGED <<now, proc, loop, inbound, calls, starts, lost>>

AckReadUnchecked(c, t) ==
  /\ acking[c] = NoTask /\ status[t] # "none"
  /\ acking' = [acking EXCEPT ![c] = t]
  /\ UNCHANGED <<table, now, proc, loop, inbound, syncing, starts, hist>>

\* Ack: the SELECT and its check ...
AckRead(c, t) ==
  /\ acking[c] = NoTask /\ status[t] = "awaiting_ack"
  /\ acking' = [acking EXCEPT ![c] = t]
  /\ UNCHANGED <<table, now, proc, loop, inbound, syncing, starts, hist>>

\* ... and the UPDATE, which does not check the status again, and may fail.
AckWrite(c) ==
  LET t == acking[c] IN
  /\ t # NoTask
  /\ \/ /\ t \in CronTasks
        /\ status' = [status EXCEPT ![t] = "pending"]
        /\ due' = [due EXCEPT ![t] = NextCronTime(now)]
        /\ spent' = spent \ {t}
     \/ /\ t \notin CronTasks
        /\ status' = [status EXCEPT ![t] = "done"]
        /\ UNCHANGED <<due, spent>>
     \/ Faults /\ UNCHANGED <<status, due, spent>>
  /\ acking' = [acking EXCEPT ![c] = NoTask]
  /\ UNCHANGED <<now, proc, loop, inbound, syncing, starts, lost>>

\* The UPDATE of SyncPowerSchedules and RemovePowerSchedules, for one power.
CancelSystem(p) ==
  status' = [t \in Tasks |->
    IF t \in PowerTasks[p] /\ status[t] \in {"pending", "awaiting_ack"}
    THEN "cancelled" ELSE status[t]]

RemovePowerSchedules(p) ==
  /\ CancelSystem(p)
  /\ UNCHANGED <<due, now, proc, loop, inbound, calls, starts, hist>>

\* SyncPowerSchedules cancels the rows of the power, or does not get to know that it
\* could not, then inserts new ones ...
SyncPowerSchedules(p, new) ==
  /\ \A t \in new : status[t] = "none" /\ t \notin syncing
  /\ CancelSystem(p) \/ (Faults /\ UNCHANGED status)
  /\ syncing' = syncing \cup new
  /\ UNCHANGED <<due, now, proc, loop, inbound, acking, starts, hist>>

\* ... each by a statement of its own,
SyncInsert(t) ==
  /\ t \in syncing
  /\ status' = [status EXCEPT ![t] = "pending"]
  /\ due' = [due EXCEPT ![t] = NextCronTime(now)]
  /\ syncing' = syncing \ {t}
  /\ UNCHANGED <<now, proc, loop, inbound, acking, starts, hist>>

\* whose failure is logged and skipped; the tool process may also be killed.
SyncSkip(t) ==
  /\ t \in syncing
  /\ syncing' = syncing \ {t}
  /\ UNCHANGED <<table, now, proc, loop, inbound, acking, starts, hist>>

-----------------------------------------------------------------------------
MarkNext == \E t \in Tasks : MarkRunning(t)
SkipNext == \E t \in Tasks : SkipRow(t)
TickStep == Select \/ SkipNext \/ MarkNext \/ Send \/ Revert \/ Finish
ProcStep == Start \/ Crash \/ RequestStop \/ Exit
BusStep  == Receive \/ SourceSend
UserStep ==
  \/ \E t \in Tasks : \/ \E d \in Times : Create(t, d)
                      \/ \E d \in Delays : Delay(t, d)
                      \/ Cancel(t)
  \/ \E c \in Clients : AckWrite(c) \/ \E t \in Tasks : AckRead(c, t)
  \/ \E p \in Powers : \/ RemovePowerSchedules(p)
                       \/ \E new \in SUBSET PowerTasks[p] : SyncPowerSchedules(p, new)
  \/ \E t \in SystemTasks : SyncInsert(t) \/ SyncSkip(t)

Next == TickStep \/ ProcStep \/ BusStep \/ UserStep \/ Clock

Spec == Init /\ [][Next]_vars

(***************************************************************************)
(* Fairness: the runtime keeps scheduling the tick goroutine and the loop  *)
(* that empties the channel, and the coordinator restarts the process.     *)
(* select picks at random among ready cases, so a loop that is asked to    *)
(* stop infinitely often at its select does stop (strong fairness).        *)
(***************************************************************************)
Fairness ==
  /\ WF_vars(Select) /\ WF_vars(MarkNext) /\ WF_vars(Finish) /\ WF_vars(Revert)
  /\ SF_vars(Send) /\ SF_vars(Exit) /\ WF_vars(Start)
  /\ WF_vars(proc # "cancelled" /\ Receive)

FairSpec == Spec /\ Fairness

-----------------------------------------------------------------------------
(* Properties.                                                             *)

\* A row is "running" only while the tick is between marking it and its final
\* UPDATE: no interleaving of calls, stops and crashes leaves another row there
\* once Start has recovered, unless an ignored UPDATE failed.
RunningIsCurrent ==
  \A t \in Running \ lost : proc = "down" \/ t = cur

\* A task is sent only if nothing sent it since it was last due to be sent: a
\* one-shot task goes out once, a requires_ack task not again before Ack or Delay,
\* a crash between the send and its UPDATE being the one exception.
SendIsLicensed == tick = "send" => cur \notin spent \ lost

\* "Tasks in awaiting_ack are preserved": neither the tick, which marks rows
\* without looking at their status, nor stop, crash and recovery move such a row.
AwaitingKept ==
  [][TickStep \/ ProcStep =>
       \A t \in Tasks : status[t] = "awaiting_ack" => status'[t] = "awaiting_ack"]_vars

\* A closed task reopens only by what was in flight when it closed: the batch the
\* tick had read, or an Ack that had passed its check.
ClosedSticks ==
  [][\A t \in Tasks :
       /\ status[t] \in {"done", "cancelled"}
       /\ t \notin DOMAIN batch \cup {cur} /\ \A c \in Clients : acking[c] # t
       => status'[t] = status[t]]_vars

\* A one-shot task without ack, once done, is done for good.
DoneIsFinal ==
  [][\A t \in Tasks \ (CronTasks \cup AckTasks) :
       status[t] = "done" => status'[t] = "done"]_vars

\* The life of a task in Schedule is that of one in TaskLife: what the tick has read
\* or marked is in the worker's hands, fired once it is in the channel.
LifeOf(s) == CASE s = "none" -> "unborn"
               [] s \in {"pending", "running"} -> "open"
               [] s = "awaiting_ack" -> "awaiting"
               [] OTHER -> s
Life == [t \in Tasks |-> LifeOf(status[t])]
Held == DOMAIN batch \cup (IF tick = "send" THEN {cur} ELSE {})
Sent == IF tick = "finish" THEN cur ELSE NoTask
Lives == INSTANCE TaskLife WITH
  life <- Life, held <- Held, sent <- Sent,
  settling <- acking, fired <- spent, doubted <- lost

\* Schedule implements TaskLife: whatever the order of the tick's statements, the
\* calls, stops and crashes, a task is fired from an open life, once per licence,
\* and then waits, comes again or is done; only what was taken, or an
\* acknowledgement that had begun, brings a closed task back.
ImplementsTaskLife == Lives!Spec

\* A task that is due gets into the channel, unless it is cancelled first: neither the
\* LIMIT of the query, nor cron tasks that come back for ever, nor a full channel, nor
\* a stop or crash with the row marked and not sent, keeps it from it. (A user who
\* delays it again and again does, and so does a lost UPDATE.)
DueTaskFires ==
  \A t \in Tasks : t \in Due ~> (tick = "finish" /\ cur = t) \/ status[t] = "cancelled"

\* Stop returns: the tick in progress, sends on a full channel included, ends.
StopReturns == proc = "stopping" ~> proc = "down"

\* What docs/guide/scheduling.md says of cancel_task for pending and running
\* tasks: a cancelled task stays cancelled.
CancelIsFinal ==
  [][\A t \in Tasks : status[t] = "cancelled" => status'[t] = "cancelled"]_vars

\* What docs/guide/scheduling.md says of delay_task, "postpone": a task that Delay
\* has just moved is not due yet.
DelayPostpones ==
  [][\A t \in Tasks, d \in Delays \ {0} : Delay(t, d) => due'[t] > now]_vars

=============================================================================
