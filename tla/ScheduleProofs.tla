--------------------------- MODULE ScheduleProofs ---------------------------
(***************************************************************************)
(* The safety properties of Schedule, for every set of tasks, clients and  *)
(* powers, every cron schedule and every bound.                            *)
(***************************************************************************)
EXTENDS Schedule, TLAPS

\* The tick holds a row exactly while it sends it or finishes it, and nothing
\* while the process is down.
TickInv ==
  /\ proc = "down" => tick = "idle"
  /\ tick = "idle" => DOMAIN batch = {}
  /\ tick \in {"idle", "rows"} <=> cur = NoTask
  /\ cur \notin DOMAIN batch
  /\ proc # "up" => starts < MaxStarts

\* Rows the tick has read exist and are not waiting for an ack: such a row leaves
\* the batch as it starts to wait. Only an Ack can make one of them done.
InFlightInv ==
  \A t \in Tasks : t \in DOMAIN batch \cup {cur} =>
    /\ status[t] \notin {"none", "awaiting_ack"}
    /\ status[t] = "done" => t \in AckTasks

\* Only requires_ack tasks wait for one; a call to Ack is about one of them.
AckInv ==
  /\ \A t \in Tasks : status[t] = "awaiting_ack" => t \in AckTasks
  /\ \A c \in Clients : acking[c] # NoTask =>
       acking[c] \in AckTasks /\ status[acking[c]] # "none"

\* Rows that a sync has yet to insert do not exist.
SyncInv == \A t \in syncing : status[t] = "none"

\* A task that was fired and has no new licence is out of the tick's reach, or is
\* the one the tick is about to close.
SpentInv ==
  \A t \in spent \ lost :
    /\ t \notin DOMAIN batch
    /\ \/ t = cur /\ tick = "finish"
       \/ t # cur /\ status[t] \notin {"none", "pending", "running"}

IInv ==
  /\ TypeOK /\ TickInv /\ RunningIsCurrent
  /\ InFlightInv /\ AckInv /\ SyncInv /\ SpentInv

-----------------------------------------------------------------------------
USE ConstantsAssumption DEF table, loop, calls, hist, Times, Running, TickIdle

\* The system rows are among the rows.
LEMMA SystemTasksAreTasks == SystemTasks \subseteq Tasks
BY DEF SystemTasks

\* An empty table and a process that has not started satisfy the invariant.
LEMMA InitIInv == Init => IInv
<1> SUFFICES ASSUME Init PROVE IInv
  OBVIOUS
<1>1. TypeOK
  BY DEF Init, TypeOK, Statuses
<1>2. TickInv /\ RunningIsCurrent /\ InFlightInv /\ AckInv /\ SyncInv /\ SpentInv
  BY DEF Init, TickInv, RunningIsCurrent, InFlightInv, AckInv, SyncInv, SpentInv
<1>3. QED
  BY <1>1, <1>2 DEF IInv

\* A start, whether its recovery UPDATE works or not, preserves the invariant.
LEMMA StartStep ==
  ASSUME IInv, Start
  PROVE  IInv'
<1> USE DEF Start
<1>0. TypeOK /\ TickInv /\ RunningIsCurrent /\ InFlightInv /\ AckInv /\ SyncInv /\ SpentInv
  BY DEF IInv
<1>1. TypeOK'
  BY <1>0 DEF TypeOK, Statuses, TickInv
<1>2. TickInv'
  BY <1>0 DEF TickInv, TypeOK
<1>3. RunningIsCurrent'
  BY <1>0 DEF RunningIsCurrent, TickInv, TypeOK
<1>4. InFlightInv'
  BY <1>0 DEF InFlightInv, TickInv, SyncInv, TypeOK
<1>5. AckInv'
  BY <1>0 DEF AckInv, TypeOK, SyncInv
<1>6. SyncInv'
  BY <1>0, SystemTasksAreTasks DEF SyncInv, InFlightInv, AckInv, TickInv, TypeOK
<1>7. SpentInv'
  BY <1>0 DEF SpentInv, InFlightInv, TickInv, AckInv, SyncInv, RunningIsCurrent, TypeOK
<1>8. QED
  BY <1>1, <1>2, <1>3, <1>4, <1>5, <1>6, <1>7 DEF IInv

\* A crash, which forgets the batch, the current row and the channel, preserves it.
LEMMA CrashStep ==
  ASSUME IInv, Crash
  PROVE  IInv'
<1> USE DEF Crash
<1>0. TypeOK /\ TickInv /\ RunningIsCurrent /\ InFlightInv /\ AckInv /\ SyncInv /\ SpentInv
  BY DEF IInv
<1>1. TypeOK'
  BY <1>0 DEF TypeOK, Statuses, TickInv
<1>2. TickInv'
  BY <1>0 DEF TickInv, TypeOK
<1>3. RunningIsCurrent'
  BY <1>0 DEF RunningIsCurrent, TickInv, TypeOK
<1>4. InFlightInv'
  BY <1>0 DEF InFlightInv, TickInv, SyncInv, TypeOK
<1>5. AckInv'
  BY <1>0 DEF AckInv, TypeOK, SyncInv
<1>6. SyncInv'
  BY <1>0, SystemTasksAreTasks DEF SyncInv, InFlightInv, AckInv, TickInv, TypeOK
<1>7. SpentInv'
  BY <1>0 DEF SpentInv, InFlightInv, TickInv, AckInv, SyncInv, RunningIsCurrent, TypeOK
<1>8. QED
  BY <1>1, <1>2, <1>3, <1>4, <1>5, <1>6, <1>7 DEF IInv

\* A request to stop, or a cancelled context, preserves it.
LEMMA RequestStopStep ==
  ASSUME IInv, RequestStop
  PROVE  IInv'
<1> USE DEF RequestStop
<1>0. TypeOK /\ TickInv /\ RunningIsCurrent /\ InFlightInv /\ AckInv /\ SyncInv /\ SpentInv
  BY DEF IInv
<1>1. TypeOK'
  BY <1>0 DEF TypeOK, Statuses, TickInv
<1>2. TickInv'
  BY <1>0 DEF TickInv, TypeOK
<1>3. RunningIsCurrent'
  BY <1>0 DEF RunningIsCurrent, TickInv, TypeOK
<1>4. InFlightInv'
  BY <1>0 DEF InFlightInv, TickInv, SyncInv, TypeOK
<1>5. AckInv'
  BY <1>0 DEF AckInv, TypeOK, SyncInv
<1>6. SyncInv'
  BY <1>0, SystemTasksAreTasks DEF SyncInv, InFlightInv, AckInv, TickInv, TypeOK
<1>7. SpentInv'
  BY <1>0 DEF SpentInv, InFlightInv, TickInv, AckInv, SyncInv, RunningIsCurrent, TypeOK
<1>8. QED
  BY <1>1, <1>2, <1>3, <1>4, <1>5, <1>6, <1>7 DEF IInv

\* The end of the process after Stop preserves it.
LEMMA ExitStep ==
  ASSUME IInv, Exit
  PROVE  IInv'
<1> USE DEF Exit
<1>0. TypeOK /\ TickInv /\ RunningIsCurrent /\ InFlightInv /\ AckInv /\ SyncInv /\ SpentInv
  BY DEF IInv
<1>1. TypeOK'
  BY <1>0 DEF TypeOK, Statuses, TickInv
<1>2. TickInv'
  BY <1>0 DEF TickInv, TypeOK
<1>3. RunningIsCurrent'
  BY <1>0 DEF RunningIsCurrent, TickInv, TypeOK
<1>4. InFlightInv'
  BY <1>0 DEF InFlightInv, TickInv, SyncInv, TypeOK
<1>5. AckInv'
  BY <1>0 DEF AckInv, TypeOK, SyncInv
<1>6. SyncInv'
  BY <1>0, SystemTasksAreTasks DEF SyncInv, InFlightInv, AckInv, TickInv, TypeOK
<1>7. SpentInv'
  BY <1>0 DEF SpentInv, InFlightInv, TickInv, AckInv, SyncInv, RunningIsCurrent, TypeOK
<1>8. QED
  BY <1>1, <1>2, <1>3, <1>4, <1>5, <1>6, <1>7 DEF IInv

\* The due-task query preserves it: rows it reads are pending, hence not spent.
LEMMA SelectStep ==
  ASSUME IInv, Select
  PROVE  IInv'
<1> USE DEF Select, Due
<1>0. TypeOK /\ TickInv /\ RunningIsCurrent /\ InFlightInv /\ AckInv /\ SyncInv /\ SpentInv
  BY DEF IInv
<1>1. TypeOK'
  BY <1>0 DEF TypeOK, Statuses, TickInv
<1>2. TickInv'
  BY <1>0 DEF TickInv, TypeOK
<1>3. RunningIsCurrent'
  BY <1>0 DEF RunningIsCurrent, TickInv, TypeOK
<1>4. InFlightInv'
  BY <1>0 DEF InFlightInv, TickInv, SyncInv, TypeOK
<1>5. AckInv'
  BY <1>0 DEF AckInv, TypeOK, SyncInv
<1>6. SyncInv'
  BY <1>0, SystemTasksAreTasks DEF SyncInv, InFlightInv, AckInv, TickInv, TypeOK
<1>7. SpentInv'
  BY <1>0 DEF SpentInv, InFlightInv, TickInv, AckInv, SyncInv, RunningIsCurrent, TypeOK
<1>8. QED
  BY <1>1, <1>2, <1>3, <1>4, <1>5, <1>6, <1>7 DEF IInv

\* Passing over a row preserves it: it stays pending.
LEMMA SkipRowStep ==
  ASSUME IInv, NEW t \in Tasks, SkipRow(t)
  PROVE  IInv'
<1> USE DEF SkipRow, NextRow
<1>0. TypeOK /\ TickInv /\ RunningIsCurrent /\ InFlightInv /\ AckInv /\ SyncInv /\ SpentInv
  BY DEF IInv
<1>1. TypeOK'
  BY <1>0 DEF TypeOK, Statuses, TickInv
<1>2. TickInv'
  BY <1>0 DEF TickInv, TypeOK
<1>3. RunningIsCurrent'
  BY <1>0 DEF RunningIsCurrent, TickInv, TypeOK
<1>4. InFlightInv'
  BY <1>0 DEF InFlightInv, TickInv, SyncInv, TypeOK
<1>5. AckInv'
  BY <1>0 DEF AckInv, TypeOK, SyncInv
<1>6. SyncInv'
  BY <1>0, SystemTasksAreTasks DEF SyncInv, InFlightInv, AckInv, TickInv, TypeOK
<1>7. SpentInv'
  BY <1>0 DEF SpentInv, InFlightInv, TickInv, AckInv, SyncInv, RunningIsCurrent, TypeOK
<1>8. QED
  BY <1>1, <1>2, <1>3, <1>4, <1>5, <1>6, <1>7 DEF IInv

\* Marking a row running preserves it, whatever became of the row since the query.
LEMMA MarkRunningStep ==
  ASSUME IInv, NEW t \in Tasks, MarkRunning(t)
  PROVE  IInv'
<1> USE DEF MarkRunning, NextRow, TickUpdate
<1>0. TypeOK /\ TickInv /\ RunningIsCurrent /\ InFlightInv /\ AckInv /\ SyncInv /\ SpentInv
  BY DEF IInv
<1>1. TypeOK'
  BY <1>0 DEF TypeOK, Statuses, TickInv
<1>2. TickInv'
  BY <1>0 DEF TickInv, TypeOK
<1>3. RunningIsCurrent'
  BY <1>0 DEF RunningIsCurrent, TickInv, TypeOK
<1>4. InFlightInv'
  BY <1>0 DEF InFlightInv, TickInv, SyncInv, TypeOK
<1>5. AckInv'
  BY <1>0 DEF AckInv, TypeOK, SyncInv
<1>6. SyncInv'
  BY <1>0, SystemTasksAreTasks DEF SyncInv, InFlightInv, AckInv, TickInv, TypeOK
<1>7. SpentInv'
  BY <1>0 DEF SpentInv, InFlightInv, TickInv, AckInv, SyncInv, RunningIsCurrent, TypeOK
<1>8. QED
  BY <1>1, <1>2, <1>3, <1>4, <1>5, <1>6, <1>7 DEF IInv

\* Sending the current row's message preserves it: the row becomes spent.
LEMMA SendStep ==
  ASSUME IInv, Send
  PROVE  IInv'
<1> USE DEF Send
<1>0. TypeOK /\ TickInv /\ RunningIsCurrent /\ InFlightInv /\ AckInv /\ SyncInv /\ SpentInv
  BY DEF IInv
<1>1. TypeOK'
  BY <1>0 DEF TypeOK, Statuses, TickInv
<1>2. TickInv'
  BY <1>0 DEF TickInv, TypeOK
<1>3. RunningIsCurrent'
  BY <1>0 DEF RunningIsCurrent, TickInv, TypeOK
<1>4. InFlightInv'
  BY <1>0 DEF InFlightInv, TickInv, SyncInv, TypeOK
<1>5. AckInv'
  BY <1>0 DEF AckInv, TypeOK, SyncInv
<1>6. SyncInv'
  BY <1>0, SystemTasksAreTasks DEF SyncInv, InFlightInv, AckInv, TickInv, TypeOK
<1>7. SpentInv'
  BY <1>0 DEF SpentInv, InFlightInv, TickInv, AckInv, SyncInv, RunningIsCurrent, TypeOK
<1>8. QED
  BY <1>1, <1>2, <1>3, <1>4, <1>5, <1>6, <1>7 DEF IInv

\* Giving the current row back on a cancelled context preserves it.
LEMMA RevertStep ==
  ASSUME IInv, Revert
  PROVE  IInv'
<1> USE DEF Revert, TickUpdate
<1>0. TypeOK /\ TickInv /\ RunningIsCurrent /\ InFlightInv /\ AckInv /\ SyncInv /\ SpentInv
  BY DEF IInv
<1>1. TypeOK'
  BY <1>0 DEF TypeOK, Statuses, TickInv
<1>2. TickInv'
  BY <1>0 DEF TickInv, TypeOK
<1>3. RunningIsCurrent'
  BY <1>0 DEF RunningIsCurrent, TickInv, TypeOK
<1>4. InFlightInv'
  BY <1>0 DEF InFlightInv, TickInv, SyncInv, TypeOK
<1>5. AckInv'
  BY <1>0 DEF AckInv, TypeOK, SyncInv
<1>6. SyncInv'
  BY <1>0, SystemTasksAreTasks DEF SyncInv, InFlightInv, AckInv, TickInv, TypeOK
<1>7. SpentInv'
  BY <1>0 DEF SpentInv, InFlightInv, TickInv, AckInv, SyncInv, RunningIsCurrent, TypeOK
<1>8. QED
  BY <1>1, <1>2, <1>3, <1>4, <1>5, <1>6, <1>7 DEF IInv

\* The UPDATE after the send, done or lost, preserves it.
LEMMA FinishStep ==
  ASSUME IInv, Finish
  PROVE  IInv'
<1> USE DEF Finish, FinishWrite, FinishLost, FiredStatus
<1>0. TypeOK /\ TickInv /\ RunningIsCurrent /\ InFlightInv /\ AckInv /\ SyncInv /\ SpentInv
  BY DEF IInv
<1>1. TypeOK'
  BY <1>0 DEF TypeOK, Statuses, TickInv
<1>2. TickInv'
  BY <1>0 DEF TickInv, TypeOK
<1>3. RunningIsCurrent'
  BY <1>0 DEF RunningIsCurrent, TickInv, TypeOK
<1>4. InFlightInv'
  BY <1>0 DEF InFlightInv, TickInv, SyncInv, TypeOK
<1>5. AckInv'
  BY <1>0 DEF AckInv, TypeOK, SyncInv
<1>6. SyncInv'
  BY <1>0, SystemTasksAreTasks DEF SyncInv, InFlightInv, AckInv, TickInv, TypeOK
<1>7. SpentInv'
  BY <1>0 DEF SpentInv, InFlightInv, TickInv, AckInv, SyncInv, RunningIsCurrent, TypeOK
<1>8. QED
  BY <1>1, <1>2, <1>3, <1>4, <1>5, <1>6, <1>7 DEF IInv

\* Receiving a message touches nothing the invariant speaks of but the channel.
LEMMA ReceiveStep ==
  ASSUME IInv, Receive
  PROVE  IInv'
<1> USE DEF Receive
<1>0. TypeOK /\ TickInv /\ RunningIsCurrent /\ InFlightInv /\ AckInv /\ SyncInv /\ SpentInv
  BY DEF IInv
<1>1. TypeOK'
  BY <1>0 DEF TypeOK, Statuses, TickInv
<1>2. TickInv'
  BY <1>0 DEF TickInv, TypeOK
<1>3. RunningIsCurrent'
  BY <1>0 DEF RunningIsCurrent, TickInv, TypeOK
<1>4. InFlightInv'
  BY <1>0 DEF InFlightInv, TickInv, SyncInv, TypeOK
<1>5. AckInv'
  BY <1>0 DEF AckInv, TypeOK, SyncInv
<1>6. SyncInv'
  BY <1>0, SystemTasksAreTasks DEF SyncInv, InFlightInv, AckInv, TickInv, TypeOK
<1>7. SpentInv'
  BY <1>0 DEF SpentInv, InFlightInv, TickInv, AckInv, SyncInv, RunningIsCurrent, TypeOK
<1>8. QED
  BY <1>1, <1>2, <1>3, <1>4, <1>5, <1>6, <1>7 DEF IInv

\* A source's message does not either.
LEMMA SourceSendStep ==
  ASSUME IInv, SourceSend
  PROVE  IInv'
<1> USE DEF SourceSend
<1>0. TypeOK /\ TickInv /\ RunningIsCurrent /\ InFlightInv /\ AckInv /\ SyncInv /\ SpentInv
  BY DEF IInv
<1>1. TypeOK'
  BY <1>0 DEF TypeOK, Statuses, TickInv
<1>2. TickInv'
  BY <1>0 DEF TickInv, TypeOK
<1>3. RunningIsCurrent'
  BY <1>0 DEF RunningIsCurrent, TickInv, TypeOK
<1>4. InFlightInv'
  BY <1>0 DEF InFlightInv, TickInv, SyncInv, TypeOK
<1>5. AckInv'
  BY <1>0 DEF AckInv, TypeOK, SyncInv
<1>6. SyncInv'
  BY <1>0, SystemTasksAreTasks DEF SyncInv, InFlightInv, AckInv, TickInv, TypeOK
<1>7. SpentInv'
  BY <1>0 DEF SpentInv, InFlightInv, TickInv, AckInv, SyncInv, RunningIsCurrent, TypeOK
<1>8. QED
  BY <1>1, <1>2, <1>3, <1>4, <1>5, <1>6, <1>7 DEF IInv

\* The passage of time preserves it.
LEMMA ClockStep ==
  ASSUME IInv, Clock
  PROVE  IInv'
<1> USE DEF Clock
<1>0. TypeOK /\ TickInv /\ RunningIsCurrent /\ InFlightInv /\ AckInv /\ SyncInv /\ SpentInv
  BY DEF IInv
<1>1. TypeOK'
  BY <1>0 DEF TypeOK, Statuses, TickInv
<1>2. TickInv'
  BY <1>0 DEF TickInv, TypeOK
<1>3. RunningIsCurrent'
  BY <1>0 DEF RunningIsCurrent, TickInv, TypeOK
<1>4. InFlightInv'
  BY <1>0 DEF InFlightInv, TickInv, SyncInv, TypeOK
<1>5. AckInv'
  BY <1>0 DEF AckInv, TypeOK, SyncInv
<1>6. SyncInv'
  BY <1>0, SystemTasksAreTasks DEF SyncInv, InFlightInv, AckInv, TickInv, TypeOK
<1>7. SpentInv'
  BY <1>0 DEF SpentInv, InFlightInv, TickInv, AckInv, SyncInv, RunningIsCurrent, TypeOK
<1>8. QED
  BY <1>1, <1>2, <1>3, <1>4, <1>5, <1>6, <1>7 DEF IInv

\* Creating a row preserves it: no one holds a row that does not exist.
LEMMA CreateStep ==
  ASSUME IInv, NEW t \in Tasks, NEW d \in Times, Create(t, d)
  PROVE  IInv'
<1> USE DEF Create, SystemTasks
<1>0. TypeOK /\ TickInv /\ RunningIsCurrent /\ InFlightInv /\ AckInv /\ SyncInv /\ SpentInv
  BY DEF IInv
<1>1. TypeOK'
  BY <1>0 DEF TypeOK, Statuses, TickInv
<1>2. TickInv'
  BY <1>0 DEF TickInv, TypeOK
<1>3. RunningIsCurrent'
  BY <1>0 DEF RunningIsCurrent, TickInv, TypeOK
<1>4. InFlightInv'
  BY <1>0 DEF InFlightInv, TickInv, SyncInv, TypeOK
<1>5. AckInv'
  BY <1>0 DEF AckInv, TypeOK, SyncInv
<1>6. SyncInv'
  BY <1>0, SystemTasksAreTasks DEF SyncInv, InFlightInv, AckInv, TickInv, TypeOK
<1>7. SpentInv'
  BY <1>0 DEF SpentInv, InFlightInv, TickInv, AckInv, SyncInv, RunningIsCurrent, TypeOK
<1>8. QED
  BY <1>1, <1>2, <1>3, <1>4, <1>5, <1>6, <1>7 DEF IInv

\* Cancelling a row, in the tick's hands or not, preserves it.
LEMMA CancelStep ==
  ASSUME IInv, NEW t \in Tasks, Cancel(t)
  PROVE  IInv'
<1> USE DEF Cancel
<1>0. TypeOK /\ TickInv /\ RunningIsCurrent /\ InFlightInv /\ AckInv /\ SyncInv /\ SpentInv
  BY DEF IInv
<1>1. TypeOK'
  BY <1>0 DEF TypeOK, Statuses, TickInv
<1>2. TickInv'
  BY <1>0 DEF TickInv, TypeOK
<1>3. RunningIsCurrent'
  BY <1>0 DEF RunningIsCurrent, TickInv, TypeOK
<1>4. InFlightInv'
  BY <1>0 DEF InFlightInv, TickInv, SyncInv, TypeOK
<1>5. AckInv'
  BY <1>0 DEF AckInv, TypeOK, SyncInv
<1>6. SyncInv'
  BY <1>0, SystemTasksAreTasks DEF SyncInv, InFlightInv, AckInv, TickInv, TypeOK
<1>7. SpentInv'
  BY <1>0 DEF SpentInv, InFlightInv, TickInv, AckInv, SyncInv, RunningIsCurrent, TypeOK
<1>8. QED
  BY <1>1, <1>2, <1>3, <1>4, <1>5, <1>6, <1>7 DEF IInv

\* Delaying a row preserves it: its licence is renewed.
LEMMA DelayStep ==
  ASSUME IInv, NEW t \in Tasks, NEW d \in Delays, Delay(t, d)
  PROVE  IInv'
<1> USE DEF Delay
<1>0. TypeOK /\ TickInv /\ RunningIsCurrent /\ InFlightInv /\ AckInv /\ SyncInv /\ SpentInv
  BY DEF IInv
<1>1. TypeOK'
  BY <1>0 DEF TypeOK, Statuses, TickInv
<1>2. TickInv'
  BY <1>0 DEF TickInv, TypeOK
<1>3. RunningIsCurrent'
  BY <1>0 DEF RunningIsCurrent, TickInv, TypeOK
<1>4. InFlightInv'
  BY <1>0 DEF InFlightInv, TickInv, SyncInv, TypeOK
<1>5. AckInv'
  BY <1>0 DEF AckInv, TypeOK, SyncInv
<1>6. SyncInv'
  BY <1>0, SystemTasksAreTasks DEF SyncInv, InFlightInv, AckInv, TickInv, TypeOK
<1>7. SpentInv'
  BY <1>0 DEF SpentInv, InFlightInv, TickInv, AckInv, SyncInv, RunningIsCurrent, TypeOK
<1>8. QED
  BY <1>1, <1>2, <1>3, <1>4, <1>5, <1>6, <1>7 DEF IInv

\* The read of an Ack preserves it.
LEMMA AckReadStep ==
  ASSUME IInv, NEW c \in Clients, NEW t \in Tasks, AckRead(c, t)
  PROVE  IInv'
<1> USE DEF AckRead
<1>0. TypeOK /\ TickInv /\ RunningIsCurrent /\ InFlightInv /\ AckInv /\ SyncInv /\ SpentInv
  BY DEF IInv
<1>1. TypeOK'
  BY <1>0 DEF TypeOK, Statuses, TickInv
<1>2. TickInv'
  BY <1>0 DEF TickInv, TypeOK
<1>3. RunningIsCurrent'
  BY <1>0 DEF RunningIsCurrent, TickInv, TypeOK
<1>4. InFlightInv'
  BY <1>0 DEF InFlightInv, TickInv, SyncInv, TypeOK
<1>5. AckInv'
  BY <1>0 DEF AckInv, TypeOK, SyncInv
<1>6. SyncInv'
  BY <1>0, SystemTasksAreTasks DEF SyncInv, InFlightInv, AckInv, TickInv, TypeOK
<1>7. SpentInv'
  BY <1>0 DEF SpentInv, InFlightInv, TickInv, AckInv, SyncInv, RunningIsCurrent, TypeOK
<1>8. QED
  BY <1>1, <1>2, <1>3, <1>4, <1>5, <1>6, <1>7 DEF IInv

\* The write of an Ack, on a row that may have changed since its read, preserves it.
LEMMA AckWriteStep ==
  ASSUME IInv, NEW c \in Clients, AckWrite(c)
  PROVE  IInv'
<1> USE DEF AckWrite
<1>0. TypeOK /\ TickInv /\ RunningIsCurrent /\ InFlightInv /\ AckInv /\ SyncInv /\ SpentInv
  BY DEF IInv
<1>1. TypeOK'
  <2>1. acking[c] \in Tasks /\ acking' \in [Clients -> Tasks \cup {NoTask}]
    BY <1>0 DEF TypeOK
  <2>2. status' \in [Tasks -> Statuses]
    BY <1>0, <2>1 DEF TypeOK, Statuses
  <2>3. NextCronTime(now) \in Nat
    BY <1>0 DEF TypeOK
  <2>4. due' \in [Tasks -> Nat] /\ spent' \subseteq Tasks
    BY <1>0, <2>1, <2>3 DEF TypeOK
  <2>5. QED
    BY <1>0, <2>1, <2>2, <2>4 DEF TypeOK
<1>2. TickInv'
  BY <1>0 DEF TickInv, TypeOK
<1>3. RunningIsCurrent'
  BY <1>0 DEF RunningIsCurrent, TickInv, TypeOK
<1>4. InFlightInv'
  BY <1>0 DEF InFlightInv, AckInv, TickInv, SyncInv, TypeOK
<1>5. AckInv'
  BY <1>0 DEF AckInv, TypeOK, SyncInv
<1>6. SyncInv'
  BY <1>0, SystemTasksAreTasks DEF SyncInv, InFlightInv, AckInv, TickInv, TypeOK
<1>7. SpentInv'
  BY <1>0 DEF SpentInv, InFlightInv, TickInv, AckInv, SyncInv, RunningIsCurrent, TypeOK
<1>8. QED
  BY <1>1, <1>2, <1>3, <1>4, <1>5, <1>6, <1>7 DEF IInv

\* Cancelling the system rows of a power preserves it.
LEMMA RemoveStep ==
  ASSUME IInv, NEW p \in Powers, RemovePowerSchedules(p)
  PROVE  IInv'
<1> USE DEF RemovePowerSchedules, CancelSystem
<1>0. TypeOK /\ TickInv /\ RunningIsCurrent /\ InFlightInv /\ AckInv /\ SyncInv /\ SpentInv
  BY DEF IInv
<1>1. TypeOK'
  BY <1>0 DEF TypeOK, Statuses, TickInv
<1>2. TickInv'
  BY <1>0 DEF TickInv, TypeOK
<1>3. RunningIsCurrent'
  BY <1>0 DEF RunningIsCurrent, TickInv, TypeOK
<1>4. InFlightInv'
  BY <1>0 DEF InFlightInv, TickInv, SyncInv, TypeOK
<1>5. AckInv'
  BY <1>0 DEF AckInv, TypeOK, SyncInv
<1>6. SyncInv'
  BY <1>0, SystemTasksAreTasks DEF SyncInv, InFlightInv, AckInv, TickInv, TypeOK
<1>7. SpentInv'
  BY <1>0 DEF SpentInv, InFlightInv, TickInv, AckInv, SyncInv, RunningIsCurrent, TypeOK
<1>8. QED
  BY <1>1, <1>2, <1>3, <1>4, <1>5, <1>6, <1>7 DEF IInv

\* Beginning to synchronise the rows of a power preserves it.
LEMMA SyncStep ==
  ASSUME IInv, NEW p \in Powers, NEW new \in SUBSET PowerTasks[p], SyncPowerSchedules(p, new)
  PROVE  IInv'
<1> USE DEF SyncPowerSchedules, CancelSystem
<1>0. TypeOK /\ TickInv /\ RunningIsCurrent /\ InFlightInv /\ AckInv /\ SyncInv /\ SpentInv
  BY DEF IInv
<1>1. TypeOK'
  <2>1. status' \in [Tasks -> Statuses]
    BY <1>0 DEF TypeOK, Statuses
  <2>2. new \subseteq SystemTasks
    BY DEF SystemTasks
  <2>3. syncing' \subseteq SystemTasks
    BY <1>0, <2>2 DEF TypeOK
  <2>4. QED
    BY <1>0, <2>1, <2>3 DEF TypeOK
<1>2. TickInv'
  BY <1>0, SystemTasksAreTasks DEF TickInv, TypeOK
<1>3. RunningIsCurrent'
  BY <1>0, SystemTasksAreTasks DEF RunningIsCurrent, TickInv, TypeOK
<1>4. InFlightInv'
  BY <1>0, SystemTasksAreTasks DEF InFlightInv, TickInv, SyncInv, TypeOK
<1>5. AckInv'
  BY <1>0, SystemTasksAreTasks DEF AckInv, TypeOK, SyncInv
<1>6. SyncInv'
  BY <1>0, SystemTasksAreTasks DEF SyncInv, InFlightInv, AckInv, TickInv, TypeOK
<1>7. SpentInv'
  BY <1>0, SystemTasksAreTasks DEF SpentInv, InFlightInv, TickInv, AckInv, SyncInv, RunningIsCurrent, TypeOK
<1>8. QED
  BY <1>1, <1>2, <1>3, <1>4, <1>5, <1>6, <1>7 DEF IInv

\* Inserting one of the new rows preserves it.
LEMMA SyncInsertStep ==
  ASSUME IInv, NEW t \in SystemTasks, SyncInsert(t)
  PROVE  IInv'
<1> USE DEF SyncInsert, SystemTasks
<1>0. TypeOK /\ TickInv /\ RunningIsCurrent /\ InFlightInv /\ AckInv /\ SyncInv /\ SpentInv
  BY DEF IInv
<1>1. TypeOK'
  BY <1>0 DEF TypeOK, Statuses, TickInv
<1>2. TickInv'
  BY <1>0 DEF TickInv, TypeOK
<1>3. RunningIsCurrent'
  BY <1>0 DEF RunningIsCurrent, TickInv, TypeOK
<1>4. InFlightInv'
  BY <1>0 DEF InFlightInv, TickInv, SyncInv, TypeOK
<1>5. AckInv'
  BY <1>0 DEF AckInv, TypeOK, SyncInv
<1>6. SyncInv'
  BY <1>0, SystemTasksAreTasks DEF SyncInv, InFlightInv, AckInv, TickInv, TypeOK
<1>7. SpentInv'
  BY <1>0 DEF SpentInv, InFlightInv, TickInv, AckInv, SyncInv, RunningIsCurrent, TypeOK
<1>8. QED
  BY <1>1, <1>2, <1>3, <1>4, <1>5, <1>6, <1>7 DEF IInv

\* Skipping one of them preserves it.
LEMMA SyncSkipStep ==
  ASSUME IInv, NEW t \in SystemTasks, SyncSkip(t)
  PROVE  IInv'
<1> USE DEF SyncSkip, SystemTasks
<1>0. TypeOK /\ TickInv /\ RunningIsCurrent /\ InFlightInv /\ AckInv /\ SyncInv /\ SpentInv
  BY DEF IInv
<1>1. TypeOK'
  BY <1>0 DEF TypeOK, Statuses, TickInv
<1>2. TickInv'
  BY <1>0 DEF TickInv, TypeOK
<1>3. RunningIsCurrent'
  BY <1>0 DEF RunningIsCurrent, TickInv, TypeOK
<1>4. InFlightInv'
  BY <1>0 DEF InFlightInv, TickInv, SyncInv, TypeOK
<1>5. AckInv'
  BY <1>0 DEF AckInv, TypeOK, SyncInv
<1>6. SyncInv'
  BY <1>0, SystemTasksAreTasks DEF SyncInv, InFlightInv, AckInv, TickInv, TypeOK
<1>7. SpentInv'
  BY <1>0 DEF SpentInv, InFlightInv, TickInv, AckInv, SyncInv, RunningIsCurrent, TypeOK
<1>8. QED
  BY <1>1, <1>2, <1>3, <1>4, <1>5, <1>6, <1>7 DEF IInv

\* Every step preserves the invariant.
LEMMA NextStep == IInv /\ [Next]_vars => IInv'
<1> SUFFICES ASSUME IInv, [Next]_vars PROVE IInv'
  OBVIOUS
<1>1. CASE TickStep
  BY <1>1, SelectStep, SkipRowStep, MarkRunningStep, SendStep, RevertStep, FinishStep
  DEF TickStep, SkipNext, MarkNext
<1>2. CASE ProcStep
  BY <1>2, StartStep, CrashStep, RequestStopStep, ExitStep DEF ProcStep
<1>3. CASE BusStep \/ Clock
  BY <1>3, ReceiveStep, SourceSendStep, ClockStep DEF BusStep
<1>4. CASE UserStep
  BY <1>4, CreateStep, CancelStep, DelayStep, AckReadStep, AckWriteStep,
     RemoveStep, SyncStep, SyncInsertStep, SyncSkipStep DEF UserStep
<1>5. CASE UNCHANGED vars
  BY <1>5 DEF vars, IInv, TypeOK, TickInv, RunningIsCurrent, InFlightInv, AckInv,
              SyncInv, SpentInv
<1>6. QED
  BY <1>1, <1>2, <1>3, <1>4, <1>5 DEF Next

\* The invariant holds in every behaviour.
LEMMA Inductive == Spec => []IInv
<1>1. QED
  BY InitIInv, NextStep, PTL DEF Spec

-----------------------------------------------------------------------------
(* The theorems.                                                           *)

\* Every variable of the scheduler keeps its type.
THEOREM TypeCorrect == Spec => []TypeOK
<1>1. IInv => TypeOK
  BY DEF IInv
<1>2. QED
  BY <1>1, Inductive, PTL

\* After recovery no row is stuck in "running": the only such row is the one the
\* tick works on, whatever calls, stops and crashes come in between.
THEOREM NoRowStuckRunning == Spec => []RunningIsCurrent
<1>1. IInv => RunningIsCurrent
  BY DEF IInv
<1>2. QED
  BY <1>1, Inductive, PTL

\* No task is sent twice on one licence, be it from a batch read before an Ack, a
\* Delay or a Cancel, or after a restart.
THEOREM NoUnlicensedSend == Spec => []SendIsLicensed
<1>1. IInv => SendIsLicensed
  <2> SUFFICES ASSUME IInv, tick = "send", cur \in spent \ lost PROVE FALSE
    BY DEF SendIsLicensed
  <2>1. QED
    BY DEF IInv, SpentInv
<1>2. QED
  BY <1>1, Inductive, PTL

\* A row waiting for an ack is never in the tick's hands, so marking rows without
\* looking at their status cannot lose it; stop, crash and recovery keep it too.
THEOREM AwaitingIsKept == Spec => AwaitingKept
<1>1. ASSUME IInv, TickStep \/ ProcStep, NEW t \in Tasks, status[t] = "awaiting_ack"
      PROVE  status'[t] = "awaiting_ack"
  <2>1. t \notin DOMAIN batch /\ t # cur
    BY <1>1 DEF IInv, InFlightInv
  <2>2. status \in [Tasks -> Statuses]
    BY <1>1 DEF IInv, TypeOK
  <2>3. CASE TickStep
    BY <1>1, <2>1, <2>2, <2>3 DEF TickStep, SkipNext, SkipRow, MarkNext, Select,
       MarkRunning, NextRow, Send, Revert, Finish, TickUpdate, FinishWrite, FinishLost
  <2>4. CASE ProcStep
    BY <1>1, <2>2, <2>4 DEF ProcStep, Start, Crash, RequestStop, Exit
  <2>5. QED
    BY <1>1, <2>3, <2>4
<1>2. IInv /\ [Next]_vars =>
        [TickStep \/ ProcStep =>
          \A t \in Tasks : status[t] = "awaiting_ack" => status'[t] = "awaiting_ack"]_vars
  BY <1>1
<1>3. QED
  BY <1>2, Inductive, PTL DEF Spec, AwaitingKept

\* What a step does to the status of a closed row that is neither read by the tick
\* nor the subject of an Ack in progress: nothing.
LEMMA ClosedStep ==
  ASSUME IInv, [Next]_vars, NEW t \in Tasks, status[t] \in {"done", "cancelled"},
         t \notin DOMAIN batch \cup {cur}, \A c \in Clients : acking[c] # t
  PROVE  status'[t] = status[t]
<1>1. status \in [Tasks -> Statuses] /\ SyncInv /\ acking \in [Clients -> Tasks \cup {NoTask}]
  BY DEF IInv, TypeOK
<1>2. CASE TickStep
  BY <1>1, <1>2 DEF TickStep, SkipNext, SkipRow, MarkNext, Select, MarkRunning, NextRow,
     Send, Revert, Finish,
     TickUpdate, FinishWrite, FinishLost
<1>3. CASE ProcStep
  BY <1>1, <1>3 DEF ProcStep, Start, Crash, RequestStop, Exit
<1>4. CASE BusStep \/ Clock \/ UNCHANGED vars
  BY <1>4 DEF BusStep, Receive, SourceSend, Clock, vars
<1>5. CASE UserStep
  <2>1. CASE \E u \in Tasks : Cancel(u) \/ (\E d \in Times : Create(u, d))
                             \/ (\E d \in Delays : Delay(u, d))
    BY <1>1, <2>1 DEF Create, Cancel, Delay
  <2>2. CASE \E c \in Clients : AckWrite(c) \/ \E u \in Tasks : AckRead(c, u)
    BY <1>1, <2>2 DEF AckRead, AckWrite
  <2>3. CASE \E p \in Powers : \/ RemovePowerSchedules(p)
                              \/ \E new \in SUBSET PowerTasks[p] : SyncPowerSchedules(p, new)
    BY <2>3 DEF RemovePowerSchedules, SyncPowerSchedules, CancelSystem
  <2>4. CASE \E u \in SystemTasks : SyncInsert(u) \/ SyncSkip(u)
    BY <1>1, <2>4, SystemTasksAreTasks DEF SyncInsert, SyncSkip, SyncInv
  <2>5. QED
    BY <1>5, <2>1, <2>2, <2>3, <2>4 DEF UserStep
<1>6. QED
  BY <1>2, <1>3, <1>4, <1>5 DEF Next

\* A cancelled or done task comes back only through the batch or the Ack that was
\* in flight as it closed.
THEOREM ClosedTasksStick == Spec => ClosedSticks
<1>1. IInv /\ [Next]_vars =>
        [\A t \in Tasks :
           /\ status[t] \in {"done", "cancelled"}
           /\ t \notin DOMAIN batch \cup {cur} /\ \A c \in Clients : acking[c] # t
           => status'[t] = status[t]]_vars
  BY ClosedStep
<1>2. QED
  BY <1>1, Inductive, PTL DEF Spec, ClosedSticks

\* A one-shot task without ack that has fired is over: nothing fires it again.
THEOREM DoneTasksStay == Spec => DoneIsFinal
<1>1. IInv /\ [Next]_vars =>
        [\A t \in Tasks \ (CronTasks \cup AckTasks) :
           status[t] = "done" => status'[t] = "done"]_vars
  <2> SUFFICES ASSUME IInv, [Next]_vars, NEW t \in Tasks \ (CronTasks \cup AckTasks),
                      status[t] = "done"
               PROVE  status'[t] = "done"
    OBVIOUS
  <2>1. t \notin DOMAIN batch \cup {cur}
    BY DEF IInv, InFlightInv
  <2>2. \A c \in Clients : acking[c] # t
    BY DEF IInv, AckInv
  <2>3. QED
    BY <2>1, <2>2, ClosedStep
<1>2. QED
  BY <1>1, Inductive, PTL DEF Spec, DoneIsFinal

-----------------------------------------------------------------------------
(* Schedule implements TaskLife.                                           *)

\* The life of a task, from its status.
LEMMA LifeOfStatus ==
  ASSUME NEW s \in Statuses
  PROVE  /\ LifeOf(s) = "unborn" <=> s = "none"
         /\ LifeOf(s) = "open" <=> s \in {"pending", "running"}
         /\ LifeOf(s) = "awaiting" <=> s = "awaiting_ack"
         /\ LifeOf(s) = "done" <=> s = "done"
         /\ LifeOf(s) = "cancelled" <=> s = "cancelled"
BY DEF LifeOf, Statuses

\* The life of a task of the table, before a step.
LEMMA LifeOfTask ==
  ASSUME IInv, NEW t \in Tasks
  PROVE  /\ Life[t] = LifeOf(status[t]) /\ status[t] \in Statuses
         /\ Life[t] = "unborn" <=> status[t] = "none"
         /\ Life[t] = "open" <=> status[t] \in {"pending", "running"}
         /\ Life[t] = "awaiting" <=> status[t] = "awaiting_ack"
         /\ Life[t] = "done" <=> status[t] = "done"
         /\ Life[t] = "cancelled" <=> status[t] = "cancelled"
<1>1. status[t] \in Statuses
  BY DEF IInv, TypeOK
<1>2. Life[t] = LifeOf(status[t])
  BY DEF Life
<1>3. QED
  BY <1>1, <1>2, LifeOfStatus

\* A step that leaves the statuses alone leaves the lives alone.
LEMMA LifeStays ==
  ASSUME status' = status
  PROVE  Life' = Life
BY DEF Life

\* A row that is written changes its life and no other's.
LEMMA LifeWritten ==
  ASSUME IInv, NEW t \in Tasks, NEW s \in Statuses, status' = [status EXCEPT ![t] = s]
  PROVE  Life' = [Life EXCEPT ![t] = LifeOf(s)]
<1>1. status \in [Tasks -> Statuses]
  BY DEF IInv, TypeOK
<1>2. status' = [u \in Tasks |-> IF u = t THEN s ELSE status[u]]
  BY <1>1
<1>3. QED
  BY <1>2 DEF Life

\* Between two runs of processDueTasks nothing is in the tick's hands.
LEMMA IdleHands ==
  ASSUME IInv, tick = "idle" \/ proc = "down"
  PROVE  Held = {} /\ Sent = NoTask /\ tick = "idle"
BY DEF IInv, TickInv, Held, Sent

\* The empty table is that of TaskLife.
LEMMA InitLives == Init => Lives!Init
BY DEF Init, Lives!Init, Life, LifeOf, Held, Sent

\* The due-task query takes open tasks whose licence is unused.
LEMMA SelectLives ==
  ASSUME IInv, Select
  PROVE  \E S \in SUBSET Tasks : Lives!Take(S)
<1>1. PICK S \in SUBSET Due : batch' = [t \in S |-> due[t]]
  BY DEF Select
<1>2. S \subseteq Tasks
  BY <1>1 DEF Due
<1>3. Held = {} /\ Sent = NoTask
  BY IdleHands DEF Select
<1>4. Held' = S /\ Sent' = NoTask
  <2>1. DOMAIN batch' = S
    BY <1>1
  <2>2. tick' = "rows"
    BY DEF Select
  <2>3. QED
    BY <2>1, <2>2 DEF Held, Sent
<1>5. Life' = Life
  BY LifeStays DEF Select
<1>6. ASSUME NEW t \in S PROVE Life[t] = "open" /\ t \notin spent \ lost
  <2>1. t \in Tasks /\ status[t] = "pending"
    BY <1>1, <1>2 DEF Due
  <2>2. Life[t] = "open"
    BY <2>1, LifeOfTask
  <2>3. cur = NoTask
    BY DEF Select, IInv, TickInv
  <2>4. QED
    BY <2>1, <2>2, <2>3 DEF IInv, SpentInv
<1>7. Lives!Take(S)
  BY <1>3, <1>4, <1>5, <1>6 DEF Lives!Take, Select
<1>8. QED
  BY <1>2, <1>7

\* What the tick holds may be written open: it is not waiting for an ack, and only
\* one that requires it can be done.
LEMMA InHand ==
  ASSUME IInv, NEW t \in Tasks, t \in DOMAIN batch \cup {cur}
  PROVE  /\ Life[t] \in {"open", "done", "cancelled"}
         /\ Life[t] = "done" => t \in AckTasks
<1>1. status[t] \notin {"none", "awaiting_ack"} /\ (status[t] = "done" => t \in AckTasks)
  BY DEF IInv, InFlightInv
<1>2. QED
  BY <1>1, LifeOfTask DEF Statuses

\* The tick's UPDATE of a row that it holds, as TaskLife sees it.
LEMMA TickUpdateLives ==
  ASSUME IInv, NEW t \in Tasks, NEW s \in {"pending", "running"}, TickUpdate(t, s)
  PROVE  \/ Life' = [Life EXCEPT ![t] = "open"] /\ lost' = lost
         \/ Faults /\ Life' = Life /\ lost' = lost \cup {t}
<1>1. s \in Statuses /\ LifeOf(s) = "open"
  BY DEF Statuses, LifeOf
<1>2. CASE status' = [status EXCEPT ![t] = s] /\ lost' = lost
  BY <1>1, <1>2, LifeWritten
<1>3. CASE Faults /\ status' = status /\ lost' = lost \cup {t}
  BY <1>3, LifeStays
<1>4. QED
  BY <1>2, <1>3 DEF TickUpdate

\* A row whose Scan fails is put back.
LEMMA SkipRowLives ==
  ASSUME IInv, NEW t \in Tasks, SkipRow(t)
  PROVE  Lives!PutBack(t)
<1>1. tick = "rows" /\ tick' \in {"idle", "rows"} /\ t \in DOMAIN batch
  BY DEF SkipRow, NextRow
<1>2. DOMAIN batch' = DOMAIN batch \ {t} /\ Life' = Life
  BY LifeStays DEF SkipRow
<1>3. t \in Held /\ Held' = Held \ {t} /\ Sent' = Sent
  BY <1>1, <1>2 DEF Held, Sent
<1>4. QED
  BY <1>2, <1>3 DEF Lives!PutBack, SkipRow

\* Marking a row running reopens it, if it was closed since the query.
LEMMA MarkRunningLives ==
  ASSUME IInv, NEW t \in Tasks, MarkRunning(t)
  PROVE  Lives!Reopen(t)
<1>1. tick = "rows" /\ tick' = "send" /\ cur' = t /\ t \in DOMAIN batch
  BY DEF MarkRunning, NextRow
<1>2. t \in Held /\ Sent' = Sent
  BY <1>1 DEF Held, Sent
<1>3. Held' = Held
  <2>1. DOMAIN batch' = DOMAIN batch \ {t}
    BY DEF MarkRunning
  <2>2. QED
    BY <1>1, <2>1 DEF Held
<1>4. Life[t] \in {"open", "done", "cancelled"} /\ (Life[t] = "done" => t \in AckTasks)
  BY <1>1, InHand
<1>5. \/ Life' = [Life EXCEPT ![t] = "open"] /\ lost' = lost
      \/ Faults /\ Life' = Life /\ lost' = lost \cup {t}
  BY TickUpdateLives DEF MarkRunning
<1>6. QED
  BY <1>2, <1>3, <1>4, <1>5 DEF Lives!Reopen, MarkRunning

\* The row that the tick sends or finishes is a task.
LEMMA CurrentIsTask ==
  ASSUME IInv, tick \in {"send", "finish"}
  PROVE  cur \in Tasks
BY DEF IInv, TypeOK, TickInv

\* Sending the message of the current row fires it, on a licence not used before.
LEMMA SendLives ==
  ASSUME IInv, Send
  PROVE  \E t \in Tasks : Lives!Fire(t)
<1>1. tick = "send" /\ tick' = "finish" /\ cur' = cur /\ batch' = batch
  BY DEF Send
<1>2. cur \in Tasks /\ cur \notin DOMAIN batch /\ cur \notin spent \ lost
  BY <1>1, CurrentIsTask DEF IInv, TickInv, SpentInv, RunningIsCurrent
<1>3. cur \in Held /\ Held' = Held \ {cur} /\ Sent = NoTask /\ Sent' = cur
  BY <1>1, <1>2 DEF Held, Sent
<1>4. Life' = Life
  BY LifeStays DEF Send
<1>5. QED
  BY <1>2, <1>3, <1>4 DEF Lives!Fire, Send

\* A cancelled context gives back what the tick holds, the current row written open.
LEMMA RevertLives ==
  ASSUME IInv, Revert
  PROVE  \E t \in Tasks : Lives!Reopen(t)
<1>1. tick = "send" /\ tick' = "idle" /\ cur \in Tasks
  BY CurrentIsTask DEF Revert
<1>2. cur \in Held /\ Held' = {} /\ Sent' = Sent
  <2>1. DOMAIN batch' = {}
    BY DEF Revert
  <2>2. QED
    BY <1>1, <2>1 DEF Held, Sent
<1>3. Life[cur] \in {"open", "done", "cancelled"} /\ (Life[cur] = "done" => cur \in AckTasks)
  BY <1>1, InHand
<1>4. \/ Life' = [Life EXCEPT ![cur] = "open"] /\ lost' = lost
      \/ Faults /\ Life' = Life /\ lost' = lost \cup {cur}
  BY <1>1, TickUpdateLives DEF Revert
<1>5. QED
  BY <1>1, <1>2, <1>3, <1>4 DEF Lives!Reopen, Revert

\* The UPDATE after the send lets go of the row, to be what its kind asks for.
LEMMA FinishLives ==
  ASSUME IInv, Finish
  PROVE  \E t \in Tasks : Lives!LetGo(t)
<1>1. tick = "finish" /\ tick' \in {"idle", "rows"} /\ cur \in Tasks /\ batch' = batch
  BY CurrentIsTask DEF Finish
<1>2. Sent = cur /\ Sent' = NoTask /\ Held' = Held
  BY <1>1 DEF Held, Sent
<1>3. Life[cur] \in {"open", "done", "cancelled"}
  BY <1>1, InHand
<1>4. CASE FinishLost(cur)
  <2>1. Life' = Life
    BY <1>4, LifeStays DEF FinishLost
  <2>2. QED
    BY <1>1, <1>2, <1>3, <1>4, <2>1 DEF Lives!LetGo, FinishLost, Finish
<1>5. CASE FinishWrite(cur)
  <2>1. FiredStatus(cur) \in Statuses
    BY DEF FiredStatus, Statuses
  <2>2. Life' = [Life EXCEPT ![cur] = LifeOf(FiredStatus(cur))]
    BY <1>1, <1>5, <2>1, LifeWritten DEF FinishWrite
  <2>3. lost' = lost \ {cur}
    BY <1>5 DEF FinishWrite
  <2>4. \/ cur \in AckTasks /\ Lives!Become(cur, "awaiting", spent)
        \/ cur \in CronTasks \ AckTasks /\ Lives!Become(cur, "open", spent \ {cur})
        \/ cur \notin CronTasks \cup AckTasks /\ Lives!Become(cur, "done", spent)
    BY <1>5, <2>2, <2>3 DEF Lives!Become, FinishWrite, FiredStatus, LifeOf
  <2>5. QED
    BY <1>1, <1>2, <1>3, <2>4 DEF Lives!LetGo, Finish
<1>6. QED
  BY <1>4, <1>5 DEF Finish

\* A crash, or the end of the process, empties the worker's hands.
LEMMA DownLives ==
  ASSUME IInv, Crash \/ Exit
  PROVE  Lives!Die \/ UNCHANGED Lives!vars
<1>1. Life' = Life
  BY LifeStays DEF Crash, Exit
<1>2. CASE Crash
  <2>1. DOMAIN batch' = {} /\ tick' = "idle"
    BY <1>2 DEF Crash
  <2>2. Held' = {} /\ Sent' = NoTask
    BY <2>1 DEF Held, Sent
  <2>3. spent' = spent \ {Sent}
    BY <1>2 DEF Crash, Sent, IInv, TypeOK
  <2>4. QED
    BY <1>1, <1>2, <2>2, <2>3 DEF Lives!Die, Crash
<1>3. CASE Exit
  BY <1>1, <1>3 DEF Exit, Lives!vars, Held, Sent
<1>4. QED
  BY <1>2, <1>3

\* A start takes the rows left in "running" for tasks that were never fired.
LEMMA StartLives ==
  ASSUME IInv, Start
  PROVE  Lives!Recover
<1>1. Held = {} /\ Sent = NoTask /\ tick = "idle" /\ tick' = tick /\ batch' = batch
  BY IdleHands DEF Start
<1>2. Held' = Held /\ Sent' = Sent
  BY <1>1 DEF Held, Sent
<1>3. CASE status' = [t \in Tasks |-> IF t \in Running THEN "pending" ELSE status[t]]
  <2>1. Life' = Life
    BY <1>3 DEF Life, LifeOf
  <2>2. CASE spent' = spent \ lost /\ lost' = {}
    BY <1>1, <1>2, <2>1, <2>2 DEF Lives!Recover, Start
  <2>3. CASE ~(spent' = spent \ lost /\ lost' = {})
    <3>1. Faults /\ lost' = lost \cup Running /\ spent' = spent
      BY <2>3 DEF Start
    <3>2. \A t \in lost' \ lost : t \in Tasks /\ Life[t] = "open"
      BY <3>1, LifeOfTask
    <3>3. QED
      BY <1>1, <1>2, <2>1, <3>1, <3>2 DEF Lives!Recover, Start
  <2>4. QED
    BY <2>2, <2>3
<1>4. CASE Faults /\ lost' = lost \cup Running /\ UNCHANGED <<status, spent>>
  <2>1. Life' = Life
    BY <1>4, LifeStays
  <2>2. \A t \in lost' \ lost : t \in Tasks /\ Life[t] = "open"
    BY <1>4, LifeOfTask
  <2>3. QED
    BY <1>1, <1>2, <1>4, <2>1, <2>2 DEF Lives!Recover, Start
<1>5. QED
  BY <1>3, <1>4 DEF Start

\* What a call of a tool process leaves alone.
LEMMA HandsStay ==
  ASSUME UNCHANGED loop
  PROVE  Held' = Held /\ Sent' = Sent
BY DEF Held, Sent

\* Create and the insertions of a sync open a task that did not exist.
LEMMA OpenLives ==
  ASSUME IInv, NEW t \in Tasks, (\E d \in Times : Create(t, d)) \/ SyncInsert(t)
  PROVE  Lives!Open(t)
<1>1. status[t] = "none" /\ status' = [status EXCEPT ![t] = "pending"]
  BY DEF Create, SyncInsert, IInv, SyncInv
<1>2. Life[t] = "unborn" /\ Life' = [Life EXCEPT ![t] = "open"]
  BY <1>1, LifeOfTask, LifeWritten, LifeOfStatus DEF Statuses
<1>3. Held' = Held /\ Sent' = Sent
  BY HandsStay DEF Create, SyncInsert
<1>4. QED
  BY <1>2, <1>3 DEF Lives!Open, Create, SyncInsert

\* Delay postpones.
LEMMA PostponeLives ==
  ASSUME IInv, NEW t \in Tasks, NEW d \in Delays, Delay(t, d)
  PROVE  Lives!Postpone(t)
<1>1. /\ status[t] \in {"pending", "awaiting_ack"}
      /\ status' = [status EXCEPT ![t] = "pending"]
  BY DEF Delay
<1>2. Life[t] \in {"open", "awaiting"} /\ Life' = [Life EXCEPT ![t] = "open"]
  BY <1>1, LifeOfTask, LifeWritten, LifeOfStatus DEF Statuses
<1>3. Held' = Held /\ Sent' = Sent
  BY HandsStay DEF Delay
<1>4. QED
  BY <1>2, <1>3 DEF Lives!Postpone, Delay

\* Cancel closes one task ...
LEMMA CancelLives ==
  ASSUME IInv, NEW t \in Tasks, Cancel(t)
  PROVE  Lives!Close({t})
<1>1. /\ status[t] \in {"pending", "running"}
      /\ status' = [status EXCEPT ![t] = "cancelled"]
  BY DEF Cancel
<1>2. Life[t] = "open" /\ Life' = [Life EXCEPT ![t] = "cancelled"]
  BY <1>1, LifeOfTask, LifeWritten, LifeOfStatus DEF Statuses
<1>3. Life' = [u \in Tasks |-> IF u \in {t} THEN "cancelled" ELSE Life[u]]
  BY <1>2 DEF Life
<1>4. Held' = Held /\ Sent' = Sent
  BY HandsStay DEF Cancel
<1>5. QED
  BY <1>2, <1>3, <1>4 DEF Lives!Close, Cancel

\* ... and a sync or a removal those of a power that are open or awaiting.
LEMMA CancelSystemLives ==
  ASSUME IInv, NEW p \in Powers, CancelSystem(p), UNCHANGED loop,
         acking' = acking, spent' = spent, lost' = lost
  PROVE  \E S \in SUBSET Tasks : Lives!Close(S)
<1> DEFINE S == {t \in Tasks : t \in PowerTasks[p] /\ status[t] \in {"pending", "awaiting_ack"}}
<1>1. \A t \in S : Life[t] \in {"open", "awaiting"}
  BY LifeOfTask
<1>2. status' = [t \in Tasks |-> IF t \in S THEN "cancelled" ELSE status[t]]
  BY DEF CancelSystem
<1>3. LifeOf("cancelled") = "cancelled"
  BY DEF LifeOf
<1>4. Life' = [t \in Tasks |-> IF t \in S THEN "cancelled" ELSE Life[t]]
  BY <1>2, <1>3 DEF Life
<1>5. Held' = Held /\ Sent' = Sent
  BY HandsStay
<1>6. Lives!Close(S)
  BY <1>1, <1>4, <1>5 DEF Lives!Close
<1>7. QED
  BY <1>6

\* Ack begins with a task that awaits it ...
LEMMA ClaimLives ==
  ASSUME IInv, NEW c \in Clients, NEW t \in Tasks, AckRead(c, t)
  PROVE  Lives!Claim(c, t)
<1>1. Life[t] = "awaiting" /\ Life' = Life
  BY LifeOfTask, LifeStays DEF AckRead
<1>2. Held' = Held /\ Sent' = Sent
  BY HandsStay DEF AckRead
<1>3. QED
  BY <1>1, <1>2 DEF Lives!Claim, AckRead

\* ... and settles it.
LEMMA SettleLives ==
  ASSUME IInv, NEW c \in Clients, AckWrite(c)
  PROVE  \E t \in Tasks : Lives!Settle(c, t)
<1> DEFINE t == acking[c]
<1>1. t \in Tasks
  BY DEF AckWrite, IInv, TypeOK
<1>2. Held' = Held /\ Sent' = Sent
  BY HandsStay DEF AckWrite
<1>3. CASE status' = [status EXCEPT ![t] = "pending"] /\ t \in CronTasks /\ spent' = spent \ {t}
  <2>1. "pending" \in Statuses /\ LifeOf("pending") = "open"
    BY LifeOfStatus DEF Statuses
  <2>2. Life' = [Life EXCEPT ![t] = LifeOf("pending")]
    BY <1>1, <1>3, <2>1, LifeWritten
  <2>3. QED
    BY <1>1, <1>2, <1>3, <2>1, <2>2 DEF Lives!Settle, AckWrite
<1>4. CASE status' = [status EXCEPT ![t] = "done"] /\ t \notin CronTasks /\ spent' = spent
  <2>1. Life' = [Life EXCEPT ![t] = "done"]
    BY <1>1, <1>4, LifeWritten, LifeOfStatus DEF Statuses
  <2>2. QED
    BY <1>1, <1>2, <1>4, <2>1 DEF Lives!Settle, AckWrite
<1>5. CASE Faults /\ UNCHANGED <<status, spent>>
  <2>1. Life' = Life
    BY <1>5, LifeStays
  <2>2. QED
    BY <1>1, <1>2, <1>5, <2>1 DEF Lives!Settle, AckWrite
<1>6. QED
  BY <1>3, <1>4, <1>5 DEF AckWrite

\* The clock, the channel, a request to stop and a skipped insertion do not show.
LEMMA StutterLives ==
  ASSUME BusStep \/ Clock \/ RequestStop \/ (\E t \in SystemTasks : SyncSkip(t)) \/ UNCHANGED vars
  PROVE  UNCHANGED Lives!vars
<1>1. UNCHANGED <<status, tick, batch, cur, acking, spent, lost>>
  BY DEF BusStep, Receive, SourceSend, Clock, RequestStop, SyncSkip, vars
<1>2. QED
  BY <1>1 DEF Lives!vars, Life, Held, Sent

\* The calls of the tool processes, by what they are about.
TaskCall  == \E u \in Tasks : \/ Cancel(u)
                              \/ \E d \in Times : Create(u, d)
                              \/ \E d \in Delays : Delay(u, d)
AckCall   == \E c \in Clients : AckWrite(c) \/ \E u \in Tasks : AckRead(c, u)
PowerCall == \E p \in Powers :
  RemovePowerSchedules(p) \/ \E new \in SUBSET PowerTasks[p] : SyncPowerSchedules(p, new)
SyncCall  == \E u \in SystemTasks : SyncInsert(u) \/ SyncSkip(u)

\* There are no others.
LEMMA UserCalls ==
  ASSUME UserStep
  PROVE  TaskCall \/ AckCall \/ PowerCall \/ SyncCall
BY DEF UserStep, TaskCall, AckCall, PowerCall, SyncCall

\* Every step of Schedule is one of TaskLife, or does not show in it.
LEMMA StepLives == IInv /\ [Next]_vars => [Lives!Next]_(Lives!vars)
<1> SUFFICES ASSUME IInv, [Next]_vars PROVE [Lives!Next]_(Lives!vars)
  OBVIOUS
<1>1. CASE TickStep
  BY <1>1, SelectLives, SkipRowLives, MarkRunningLives, SendLives, RevertLives, FinishLives
     DEF TickStep, SkipNext, MarkNext, Lives!Next, Lives!Worker
<1>2. CASE ProcStep
  BY <1>2, StartLives, DownLives, StutterLives DEF ProcStep, Lives!Next, Lives!Worker
<1>3. CASE BusStep \/ Clock \/ UNCHANGED vars
  BY <1>3, StutterLives
<1>4. CASE UserStep
  <2>1. CASE TaskCall
    BY <2>1, OpenLives, PostponeLives, CancelLives DEF TaskCall, Lives!Next, Lives!Users
  <2>2. CASE AckCall
    BY <2>2, ClaimLives, SettleLives DEF AckCall, Lives!Next, Lives!Users
  <2>3. CASE PowerCall
    <3>1. PICK p \in Powers :
            /\ CancelSystem(p) \/ status' = status
            /\ UNCHANGED loop /\ acking' = acking /\ spent' = spent /\ lost' = lost
      BY <2>3 DEF PowerCall, RemovePowerSchedules, SyncPowerSchedules
    <3>2. CASE CancelSystem(p)
      BY <3>1, <3>2, CancelSystemLives DEF Lives!Next, Lives!Users
    <3>3. CASE status' = status
      BY <3>1, <3>3, LifeStays, HandsStay DEF Lives!vars
    <3>4. QED
      BY <3>1, <3>2, <3>3
  <2>4. CASE SyncCall
    BY <2>4, OpenLives, StutterLives, SystemTasksAreTasks DEF SyncCall, Lives!Next, Lives!Users
  <2>5. QED
    BY <1>4, <2>1, <2>2, <2>3, <2>4, UserCalls
<1>5. QED
  BY <1>1, <1>2, <1>3, <1>4 DEF Next

\* The scheduler's table, its tick and the calls on it keep to the life of a task
\* that the guide describes.
THEOREM ScheduleKeepsLives == Spec => ImplementsTaskLife
<1>1. Init => Lives!Init
  BY InitLives
<1>2. IInv /\ [Next]_vars => [Lives!Next]_(Lives!vars)
  BY StepLives
<1>3. QED
  BY <1>1, <1>2, Inductive, PTL DEF Spec, ImplementsTaskLife, Lives!Spec
=============================================================================
