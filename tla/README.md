# rogue-core in TLA+

rogue-core runs chat agents. A *coordinator* process supervises a *pipeline*
process; the pipeline takes messages from chat sources and from a scheduler,
hands each to an AI provider and routes the answer back; *tool* processes, started
by the provider, change the same SQLite databases while the pipeline runs.

This directory models the parts of it where steps of several actors meet, checks
them with TLC on small instances and proves their safety for all instances with
TLAPS. `PROJECT.json` lists, for every definition, the source lines it stands for.

## The system

| Component | State it keeps | Operations | Talks to |
|---|---|---|---|
| Schedule (`core/schedule.go`) | `tasks` table, tick goroutine | `Start`, tick, `Stop`, `Create`, `Cancel`, `Delay`, `Ack`, `SyncPowerSchedules`, `RemovePowerSchedules` | sends into the inbound channel; its table is shared with the tool processes |
| Pipeline (`core/pipeline.go`, `cmd/rogue-pipeline`) | loop goroutine, main goroutine | `Start`, `loop`, `handleMessage`, `Stop` | calls Helmet, Cerebro, Warp in turn |
| Telepath (`core/telepath.go`) | inbound channel (100), registered sources | `Start`, `Outbound`, `Stop` (closes the channel) | sources |
| Sources (`sources/*`) | cli: reader goroutine; telegram: poller, chat buffers, timers, file queue; agent: nothing | `Start`, `Send`, `Stop` | send into the inbound channel |
| Helmet (`core/helmet.go`) | `users`, `chats`, `user_powers`, `user_channels`, `tags` | `Process`, `AssignPower`, `RevokePower` | shared with rogue-iam, rogue-telegram |
| Cerebro (`core/cerebro.go`) | `sessions` by chat | `Execute` | the provider, the MCP registry's file |
| Warp (`core/warp.go`) | `usage_stats` | `Handle` | `Outbound` |
| Coordinator (`cmd/rogue-coordinator`) | `cmd`, last checksum, signal buffer | `Run` and what it calls | signals and `Wait` on the pipeline |
| Store (`core/store.go`) | open database handles | `getOrOpenDB`, files, `Close` | everyone |
| rogue-iam | none of its own | grants and revokes, user tools | `user_powers`, `users`, `tasks` |
| rogue-phd | `papers`, `searches`, link tables, PDF files | `search_papers`, `download_pdf` | literature databases |
| rogue-store | the data directory's git repository | `backup`, file and SQL tools | every database |
| rogue-scheduler, rogue-telegram, rogue-scraper | none of their own | MCP handlers | the scheduler, Telegram's API, web pages |

What is hard here, and to be had from no unit test of the repository:

* the tick reads a batch of rows and works through it with statements that do not
  look at the rows again, while tools cancel, delay and acknowledge them;
* a task moves through the table, a channel and a handler, and the process may end
  between any two of these;
* one channel is fed by five kinds of goroutines and emptied by one, which may feed
  it too; on shutdown it is closed;
* the coordinator waits for one process from two goroutines, with a timeout, while
  the binary changes, and its signal buffer has one place;
* a killed pipeline is not waited for, so that two may work on the same tables, with
  statements that read, decide and write without a transaction;
* debounce timers fire while the poller restarts them and the shutdown drains;
* grants and the schedules they bring live in two databases;
* SQLite's last insert id belongs to a pooled connection, not to a call.

`PROJECT.json` lists these as hazards, each at its line, with the properties that
would catch it going wrong.

### What makes each component correct

* Schedule: a due task fires, once for each time it was scheduled; it is not stuck
  in `running` after a crash; a closed task stays closed; a task waiting for an
  acknowledgement is moved by its user only.
* Pipeline and Telepath: messages are handled in order, one at a time, none lost
  while the process runs; no error ends the loop; `Stop` ends, and in an order that
  keeps the schedule off the closed channel. In short: a queue with one server.
* Coordinator: one pipeline at a time; a dead one is replaced; SIGTERM ends both.
* Telegram: every text becomes part of one message, in order, with its sender's
  files; a reply shows no gap.
* Helmet, Cerebro, Warp: nobody gets a run or a power they did not have; what an
  administrator decides stays; a channel has one conversation, which remembers.
* IAM tool and power schedules: the last call on a power decides on its schedule.
* Store: one handle per database, none leaked. rogue-phd: what a search adds is
  linked to it. rogue-store: a backup's report is true of what can be restored.

## Modules

| Module | Models | Checked by |
|---|---|---|
| `Schedule` | the scheduler and its table | `MCSchedule` with `Schedule_*.cfg` |
| `TaskLife` | abstract: the life of scheduled tasks | as a property of `Schedule` |
| `ScheduleProofs` | theorems about `Schedule`, and that it implements `TaskLife` | TLAPS |
| `Intake` | abstract: a queue that one server works off | as a property of `Pipeline` |
| `Pipeline` | sources, channel, loop, Helmet's and Cerebro's checks, routing, agent source, start and stop | `MCPipeline` with `Pipeline_*.cfg` |
| `PipelineProofs` | theorems about `Pipeline`, and that it implements `Intake` | TLAPS |
| `Coordinator` | coordinator, pipeline processes, binary, signals | `MCCoordinator` with `Coordinator_*.cfg` |
| `CoordinatorProofs` | theorems about `Coordinator` | TLAPS |
| `Telegram` | polling, debounce buffers and timers, file queue, `Stop` | `MCTelegram` with `Telegram_buffers.cfg` |
| `TelegramProofs` | theorems about `Telegram` | TLAPS |
| `Helmet` | the tables a message is checked against, sessions, usage, user and power tools | `MCHelmet` with `Helmet.cfg` |
| `HelmetProofs` | theorems about `Helmet` | TLAPS |
| `Grants` | power grants and revokes, the tasks they bring, the tick | `MCParts` |
| `GrantsProofs` | theorems about `Grants` | TLAPS |
| `Papers` | rogue-phd on its connection pool | `MCParts`; `MCPapers` with `Papers_links.cfg` |
| `PapersProofs` | theorems about `Papers` | TLAPS |
| `Backup` | rogue-store's backup | `MCParts` |
| `Store` | the cache of database handles | `MCParts` |
| `Reply` | `SplitMessage` and `sendChunked` | `MCParts` |
| `Parts` | these five, side by side | `MCParts` with `Parts.cfg` |
| `PartsProofs` | theorems about `Parts`, with the proofs about `Backup`, `Store` and `Reply` | TLAPS |

Operators whose names say what they leave out (`StartNoRecovery`, `PushUnbounded`,
`StopTimeoutNoKill`, ...) are faulty versions of the definition that follows them.
No specification uses them: each is put in place of the right one to see that the
property it threatens fails.

How they fit: `Telegram` ends where a message enters the inbound channel, and its
flushes and drain are the `Flushers` and the `Drain` of `Pipeline`, in which the
debounce is abstracted to a goroutine that emits. `Pipeline` treats Helmet's checks as
one step between the receipt and the run; `Helmet` shows what the single statements do to
each other when two pipelines and the tools interleave them. `Schedule` has the
tasks table with all its users and treats a synchronisation as given; `Grants` has
only its system rows, but the calls that bring them.

### Schedule

One SQL statement or one channel operation is one step. The row of a task is
`status[t]`, `due[t]`; cron expression, acknowledgement flag and owning power do
not change and are constants. The tick goroutine is `tick` (`idle` between ticks,
`rows` in the loop over the batch, `send` waiting for room in the channel,
`finish` before the last `UPDATE`), `batch` (the rows read and not yet reached,
with the time they were sorted by; SQLite's sort materialises the result) and
`cur`. `Faults` lets statements fail: a row that cannot be scanned is passed over
(`SkipRow`), the tick's `UPDATE`s and that of `SyncPowerSchedules` are unchecked and may
be lost (`TickUpdate`), that of an `Ack` ends the call. `Crash` forgets memory and
channel, `Start` recovers `running` rows. `Ack` is two steps, `AckRead` and `AckWrite`,
for any number of clients; `Cancel` and `Delay` are one guarded statement each, whose
failure changes nothing; `SyncPowerSchedules` is an `UPDATE` and one `INSERT` a row. `spent` and `lost` are history: tasks fired since
they last became entitled to it, and tasks whose last `UPDATE` was lost.

The entitlement is renewed by what makes a task pending again for a new run: its
cron rescheduling, an acknowledgement, a delay, recovery after a lost `UPDATE`, and
a crash between the send and the `UPDATE` that follows it. The last is the one
case in which a task is fired twice for one scheduling; the code cannot tell.

`ImplementsTaskLife` is a refinement. `TaskLife` is the life cycle of
`docs/guide/scheduling.md` without clock, order, channel and process: one worker takes
open tasks whose licence is unused, fires them one at a time, and lets go of each to
wait, to come again or to be done, or puts it back; users acknowledge in two steps,
postpone and close.
`Lives` maps the rows to lives (`LifeOf`: pending and running are both open), the batch
and the row waiting for room to what the worker holds (`Held`), the row between send
and `UPDATE` to the task it has fired (`Sent`). Where the code does more than the
guide says, `TaskLife` says so: `Reopen` revives a task that was closed in the worker's
hands, `Settle` ends an acknowledgement whatever has become of its task, or fails, and a
lost write of the worker leaves the task in doubt. It says also that nothing else does: a closed task comes
back in no other way, a waiting one is moved by users only, and no licence fires twice.

* `schedule_safety`: two rows (a one-shot task; a system cron task with ack, owned
  by a power), two concurrent `Ack` callers, clock to 3, two process starts, one
  place in the channel, failing statements. Enough for a stale batch of two, for two
  overlapping acknowledgements of the same row, for a crash at every point of the
  tick and the recovery after it. `RunningIsCurrent`, `SendIsLicensed`,
  `AwaitingKept`, `ClosedSticks`, `DoneIsFinal`, `ImplementsTaskLife` hold.
* `schedule_live`: a one-shot and a cron task that is due every second unit of time,
  with `LIMIT 1`, so that the batch is always too small, and one place in the channel.
  `DueTaskFires` says that a due task gets into the channel, not only into the tick's
  hands. Starving it takes a cron task that comes back for ever, hence a clock without
  end: `EndlessSpec` in `MCSchedule` adds `Rebase`, which sets the clock at `MaxTime` back
  by one period of the cron task, and with it all times to come, while those that have
  passed keep their order. No statement of the scheduler can tell the
  difference, for it compares times only. If the query took the latest rows first, TLC
  finds the run in which the one-shot task waits for ever. `Delays` is empty: a user who
  delays a task again and again keeps it from firing, and rightly; `Faults` is false: a
  row that can never be scanned, or whose `UPDATE` is lost after it was marked, does not
  fire before the next start. `DueTaskFires` and `StopReturns` hold.

Fairness in `FairSpec`: the tick's statements and the loop that receives are weakly
fair, since the runtime schedules them; a send on a channel that keeps being
emptied, and the end of the tick's loop, whose `select` chooses at random, are
strongly fair; a process that is down is started, as the coordinator does (but see
`coordinator_crash`). Receiving is not assumed once the context is cancelled.
Nothing is assumed of tools, of the clock, which may stop, or of crashes; `MaxStarts`
bounds the last.

### Pipeline

Goroutines that emit are `Producers`: `Readers` (cli), `Flushers` (telegram
timers), the schedule's `Tick` and `Drain`, the main goroutine while it flushes
chat buffers in `Stop`. `held[p]` is the message p is about to send; `Push` waits
for room, `Panic` is the send on the closed channel. `main` walks through `Start`,
the wait for a signal, `Stop` and the return, on which the context is cancelled.
`loop`, `cur` and `target` are the loop's position in `handleMessage`: Helmet's
single read of the user's row with the checks that follow from it (`Process`), the
provider's run, during which everything else moves, and the routing. A reply to an
agent source becomes a message (`AgentSend`), which waits for room in the loop's
own goroutine. `UserTool` are the user tools of rogue-iam. A message keeps, as
history, which goroutine sent it and how many agents it has passed.

The provider is external: it returns, or fails, after any time, with no depth and
no sender in its metadata, as the providers of the repository do; `Redirects` are
the cross-channel targets it may name (none in these runs).

`ImplementsIntake` is the refinement: `Intake` knows a bounded queue, the job being
served and the jobs done, and `Serving` maps the channel, the loop's current
message and the settled ones to these. Emitting, all of `handleMessage` but its
end, the steps of start and stop other than closing the channel, and the user tools
are stutters; an agent's reply is `Forward`, one job that ends with another in the queue.

* `pipeline_safety`: one reader, one timer, tick and drain, an agent source, two
  places in the channel, three messages and one agent reply to each; a root user,
  one who needs approval, and the empty user of agent messages. `NothingLost`,
  `GateStopsHops`, `StopOrder` and `ImplementsIntake` hold. Two places and three
  messages let the channel fill while the loop is busy, with a sender left waiting.
* `pipeline_live`: no agent sources, one place. `StopEnds` and `MessageSettles`
  hold.
* `pipeline_drain`, `pipeline_depth`: see below.

Fairness: goroutines that can run do, providers return, a full channel serves its
waiting senders in turn (strong fairness of `Push`).

### Coordinator

`coord` is the coordinator's goroutine, `after` what follows the stop it is in.
`proc[p]` is the life of a process, `state[p]` what `ProcessState` says of it,
`waiters[p]` the goroutines inside `cmd.Wait`: the one of `startPipeline`, and one
of `stopPipeline` unless the first had returned. Of two, one gets the exit status
and the other an error, and each assigns what it got. The binary is a version
number, 0 while a build has removed it. A start fails while there is none, or because
the system has no process to give. `trouble` bounds crashes, SIGHUPs, builds and such
failures, so that there is always a process left to start.

* `coordinator_watch`: three processes, two crashes, rebuilds, failed starts or SIGHUPs,
  two versions. `OnePipeline`, `NoOverlap`, `TermEnds`, `ExitRestarted` hold. Two
  troubles are what it takes to have a restart fail or time out and another be due.
* `coordinator_crash`: see below.

Fairness: the coordinator's goroutine, the waiting ones and SIGKILL make progress,
its `select` takes a signal in the end (strong), a build that removed the binary
writes it. A pipeline that was told to stop need not.

### Telegram

A section of code under `buffersMu` or `fileQueueMu` is one step. `timer[c]` is the
timer the buffer refers to: none, armed, or fired, when its goroutine waits for the
lock and is counted in `firing[c]`. A flush takes the buffer and drops its
reference to a timer; one that is armed at that moment is an orphan, which fires
later and flushes whatever is there then. A message between the lock of
`flushBuffer` and the channel is in `flights`, first to take the queued files of its
sender, then to be sent. The polling goroutine itself downloads files, so that
texts wait meanwhile. `main` walks through `Stop`, the closing of the channel and
the end of the process, which a late send brings about early. `texts` and `files`
record, as history, who wrote what where.

* `telegram_buffers`: a private chat of one user with one text, a group of two users
  with two texts, one file. Two texts in a chat are the least for a merged message,
  a restarted timer that has fired, an overtaken flush and an orphan; two users for
  the wrong one's files. `TextsKept`, `RunsOfTexts`, `FilesKept`, `DrainCoversListed`
  and `TextDelivered` hold.

Fairness: armed timers fire, their goroutines get the lock, the loop makes room in
the channel. The bound on texts stands for a chat that falls silent: one that does not
keeps restarting its timer.

### Helmet

A database statement of `Process`, `Execute` and `recordUsage` is a step of the
process `l`, whose position is `loops[l].at`; database errors reject the message,
are ignored or lose powers just as in the code. There are several processes
because a killed pipeline is not waited for (`OnePipeline` says killed, not dead), and
because configurations may share a data directory; each has its own gate and
roots. A session is a number: how many runs the conversation goes back to, 0 for the
empty one, which a provider that names no session leaves behind (`SaveNoSession`). A chat
id is a number that grows; generated ids do not collide. `fit`, `held`, `saves`,
`excused` are history, needed to say what was so at some moment between two steps.

* `helmet`: two processes, gated and ungated, a user who is root for one of them, one
  channel, one power besides root's, three messages. Two loops on one user and
  channel are what the read-then-insert races take, and the third message what a
  conversation takes that was saved by either. `OneChat`, `RunsFit`, `PowersHeld`,
  `MemoryKept`, `DecisionsStay` hold. Nothing but safety is stated, hence no
  fairness.

`PowersHeld` has a gap to know of: a grant moved from the global scope to the channel
between the two queries is missed by both.

### Grants, Papers, Backup, Store, Reply

These share no state with each other. `Parts` puts the five side by side, for any
constants: the initial state picks a part, whose steps are the only ones of the
behaviour. The run `parts` checks it with the constants of `MCParts`, whose `MCSpec`
fixes the text to reply where the part is another one.

* `Grants`: `power_grant` is the row of `user_powers`, the cancelling `UPDATE`, which is
  unchecked and may be lost, and an `INSERT` for each schedule of the power, each of
  which may fail; `power_revoke` the `DELETE` and the `UPDATE`. The process may die in
  between. The tick has a batch of rows and one in hand; it marks, ends or reverts
  them by their ids, whatever they have become, loses any of these `UPDATE`s, passes rows
  over, and dies. An `Ack` is a read and an unguarded `UPDATE` by id, and several may be
  at it (`acking`). Times are left out, so that any pending row may be due, and so is the
  column `requires_ack`, so that any row may wait for an ack once fired; a schedule
  always has a cron expression. One user, one scope, one power with two schedules, two
  calls at a time, three in all, two rows: a grant, a second one or a revoke which
  overlaps it, and another one after that.
  `LastCallDecides` is about the calls that cancel with nothing in flight (`calm`), and
  holds from there through all that tick, crashes and acknowledgements do. What was
  in flight may come back (see `schedule_safety`); `CancelledForGood` says that nothing
  else does.
* `Papers`: each statement on any connection of the pool, with the connection's last
  insert id. Two calls, two connections, an answer that repeats a title and one that
  repeats a paper under another title, three attempts. `NewPapersLinked`
  holds: what a call has added and reports, it has linked to its search under the
  paper's own id.
* `Backup`: one database stands for the data directory: its file and its write-ahead
  log. Its content is the number of the last write; `db` is the last one in the file, and
  the log has those from `base` on. A checkpoint, of the tool, of SQLite or of
  another call, moves writes to the file and may let the log start again, at any moment.
  Each git command is a step, except `git add`, which reads the file, then the log: a
  checkpoint in between tears the copy, which `torn` records. `Holds` is what can be
  restored from a copy. Two backups, two writes: one before a call and one during it.
  `ReportsHold` is about copies that are not torn, and holds; that there are no others,
  as the comment in the code has it, does not (`CopiesConsistent`, below).
* `Store`: `getOrOpenDB` in its two locked sections, `Close` at any time, since main
  closes the store while the loop may still be in a handler. Two callers, two
  namespaces, three handles. `NoneLeaked` holds.
* `Reply`: every text of up to seven bytes, of newline, space and another, with a
  message of four: enough for two cuts at each kind of boundary and at none. As in Go, a
  chunk is a slice of the text, known by its ends, so that `NothingCutOut` can say what
  no chunk has, and the order of what they have. It holds.

## Where code and documents disagree

Four runs have a property that states what a document says and is violated.

* `pipeline_drain` (`StopDrains`): the process exits with messages in the channel
  and in the loop's hands, scheduled tasks that already count as done among them.
* `pipeline_depth` (`HopsBounded`): every agent-to-agent message has depth 1, so
  the maximum is never exceeded. With the approval gate on, `GateStopsHops` shows
  that such messages are dropped at the first hop.
* `coordinator_crash` (`CrashRestarted`): a pipeline that died of a signal is not
  replaced. The model shows a second way: when a restart times out just as the old
  process exits, the losing `Wait` leaves no exit status, and if that restart failed
  nothing tries again.
* `papers_links` (`ResultsLinked`): a paper that was there already is linked to the
  search under the id of the connection's last insert.

The modules state more of what documents say and the code does not do. No
configuration lists these; TLC finds each violated when it is added to the named one:

* `Schedule!CancelIsFinal` (`Schedule_safety.cfg`): a task cancelled after the tick has
  read it is fired all the same, and its status overwritten
  (`docs/guide/scheduling.md:75`).
* `Schedule!DelayPostpones` (`Schedule_safety.cfg`): `Delay` adds to the old time, so
  that an overdue task can be due at once (`docs/guide/scheduling.md:76`).
* `Pipeline!StopEnds` with an agent source (`Pipeline_live.cfg` with one of
  `Pipeline_safety.cfg`'s): loop, tick and `Stop` can wait for each other for good; the
  coordinator's SIGKILL is what ends it (`SPEC.md:633`).
* `Telegram!OwnWords` (`Telegram_buffers.cfg`): a group's buffer merges what several
  users wrote into a message of the last one (`docs/guide/telegram.md:21`).
* `Grants!GrantedIsScheduled` (`Parts.cfg` with two users, through `Granting!` in
  `Parts`): a grant of a power to one user cancels the schedule of the other users who
  have it, and a revoke cancels everyone's; nor does a grant whose synchronisation fails
  have one (`core/types.go:81`).
* `Backup!CopiesConsistent` (`Parts.cfg`, through `Saving!`): "WAL checkpoint all
  databases for consistency" (`tools/rogue-store/main.go:267`). If a checkpoint
  truncates the log between `git add`'s reading of the database and of the log, what was
  written before the call is in neither copy, and the call reports a backup.
* `Backup!NothingUnpushed` (the same): after a push that failed, later backups report that
  there is nothing to commit and push nothing (`tools/rogue-store/main.go:73`).

## Proofs

`ScheduleProofs` proves, for every set of tasks, clients and powers, every cron
function, `LIMIT`, capacity and bound, the theorems `TypeCorrect`,
`NoRowStuckRunning`, `NoUnlicensedSend`, `AwaitingIsKept`, `ClosedTasksStick`,
`DoneTasksStay` and `ScheduleKeepsLives` (`ImplementsTaskLife`): every property of
`schedule_safety`. They assume only `ConstantsAssumption`: names are distinct, subsets are subsets, numbers numbers.

None of the properties is inductive. `IInv` adds, to the type invariant and
`RunningIsCurrent`:

* `TickInv`: the tick holds a row exactly while it sends or finishes it, the row is
  not in the batch any more, and the tick is idle while the process is down;
* `InFlightInv`: a row in the tick's hands exists and does not wait for an ack, and
  is done only if an acknowledgement made it so. This is what makes the unguarded
  `UPDATE`s harmless to waiting rows: a row enters `awaiting_ack` only as it leaves
  the tick's hands, and cannot be read again from there;
* `AckInv`: only tasks that require an acknowledgement wait for one, or are the
  subject of an `Ack` in progress;
* `SyncInv`: rows a synchronisation has yet to insert do not exist;
* `SpentInv`: a task that was fired and has no new entitlement is neither in the
  batch nor pending nor running, unless it is the one about to be closed.

One lemma per action shows that it preserves each of these; `NextStep` collects
them. The action properties follow from `IInv` by cases on the action, `ClosedStep`
being the common lemma. TLC checked `IInv` as an invariant before it was proved.

For the refinement each action is one step of `TaskLife`, or does not show there
(`StutterLives`): `LifeWritten` says what an `UPDATE` of a row is to its life, `InHand`
and `SendIsLicensed` give the guards of the worker's steps, and `SyncInv` that of the
insertions of a synchronisation.

`CoordinatorProofs` proves, for any number of processes and builds, the three safety
properties of `coordinator_watch`: `TypeCorrect`, `RestartWaits` (`NoOverlap`) and
`OnePipelineAtATime` (`OnePipeline`), from `ConstantsAssumption` alone. `IInv` adds
to them:

* `NumberInv`: processes are numbered as they are started, there is one as soon as
  the coordinator is past its start, and a restart is never on its way to an exit;
* `WaitInv`: an exit status is that of a dead process, and the `Wait` of
  `stopPipeline` returns for a dead process only, whether it got the status or the
  error. `stopPipeline` may thus go on at once when it finds a status;
* `PastInv`: every process before the current one is dead or was killed, which a
  restart extends by `NoOverlap` to the one it replaces.

`HelmetProofs` proves, for any set of loops, users, channels and powers, any gates and
roots and any number of messages, every property of `helmet`: `TypeCorrect`,
`ChatsAreOne` (`OneChat`), `RunsAreFit` (`RunsFit`), `PowersAreHeld` (`PowersHeld`),
`MemoryIsKept` (`MemoryKept`) and `DecisionsAreKept` (`DecisionsStay`), from
`ConstantsAssumption` alone. What a loop has read is only of use as long as something
is known of the table it came from; `IInv` says, besides the properties, what:

* `LoopInv`: from the reading of the row on, the user has a row, and from that of
  the chat on the channel has a chat. Neither table ever loses a row, so that a
  process which finds one missing and inserts it too late meets the other's;
* `FitInv`: while a loop waits for the row, a user who is fit now has been recorded
  as fit; once it has the row, that is so if the row will pass the gate. Nothing is
  known of the row in the table from then on, which is why `RunsFit` speaks of some
  moment, not of the moment of the run;
* `PowerInv`: between the two queries, what the first has found was held, and a grant
  of the channel that has stayed since then is among it. A grant of the global scope
  that stayed is then found by the second;
* `MemoryInv`: a loop that works on a channel alone started from all that was saved
  for it, and a chat id not yet given out has no session.

One lemma deals with each kind of change a step makes to its loop (`EndsStep`,
`GotoStep`, `RowStep`, ...), `LoopStep` and `NextStep` collect them. TLC checked `IInv`
in the instance of `helmet` before it was proved.

`PipelineProofs` proves, for any goroutines, sources, users, roots, redirects, channel
capacity and number of messages, every safety property of `pipeline_safety`:
`TypeCorrect`, `NoneIsLost` (`NothingLost`), `GateStopsAgents` (`GateStopsHops`),
`StopKeepsOrder` (`StopOrder`) and `PipelineIsIntake` (`ImplementsIntake`), from
`ConstantsAssumption` alone. `IInv` adds to the first four:

* `LoopInv`: the loop is off until it is started, holds a message exactly while it
  handles one, and has a target only while it routes;
* `HeldInv`: a message that a goroutine is about to send has a number that was never
  accepted, which is why sending it adds to the queue and takes from nothing;
* `ChainInv`: of a chain of agents' messages only the last is under way, and it
  carries no user. Nobody can approve the empty user, so that the gate stops it;
* `StopInv`: when the stop of the schedule is over the tick has returned, and when that
  of the sources is over nothing is left to drain.

For the refinement, `KeyedAppend` and `KeyedTail` say what a send and a receive do to
the sequence of numbers that `Intake` sees; each action is then one of its steps or
leaves all it sees unchanged. This needs the invariant in one place: by `ChainInv` and
`HeldInv`, a message that enters the channel has a number no earlier one had.

`TelegramProofs` proves, for any chats, members, files and number of texts, every safety
property of `telegram_buffers`: `TypeCorrect`, `TextsAreKept` (`TextsKept`),
`TextsStayInOrder` (`RunsOfTexts`), `FilesAreKept` (`FilesKept`) and `DrainIsComplete`
(`DrainCoversListed`), from `ConstantsAssumption` alone. `IInv` adds to them:

* `BufferInv`: a buffer holds, in order, all texts of its chat from some point on. So
  does the message it becomes, which has no gap because the buffer had none;
* `FlightInv`: no two messages under way share a text, nor one of them and one
  delivered. A flight is thus known by its texts, and neither taking files nor sending
  it touches another that looks the same;
* `FileInv`: only downloaded files are queued or attached, and none to a message that
  has not been through the file queue;
* `DrainInv`: once the drain has listed the chats, one that is not on the list any
  more holds later texts only.

No part speaks of timers: how many are armed, orphaned or waiting for the lock makes
no difference to what a flush takes, which is the point of deleting the buffer in the
section that takes it.

`PartsProofs` proves what the run `parts` checks, all seven properties, for any number of
calls that race, users, scopes, powers, topics, connections, namespaces and writes, any
answers of the literature databases, any text and any limit. It assumes
`PartsAssumption`, which is the `ConstantsAssumption` of each part. A step of `Parts` is a
step of one part (`PartSteps`), and leaves the invariants of the others alone. `Store`,
`Backup` and `Reply` are dealt with there; `GrantsProofs` and `PapersProofs` are modules
of their own, whose theorems carry over since the instances they are about have the
same definitions (`GrantsStep`, `PapersStep`, `GrantsSame`, `PapersSame`).

* `LastCallHolds` (`LastCallDecides`) and `CancelledStays` (`CancelledForGood`): by
  `Numbered`, calls have numbers of their own, which their rows bear, and a call has no
  row before it inserts; by `CallInv`, a calm name has one call at a time, and one that
  inserts is the one that cancelled last, so that what it adds is what it should; by
  `FlightInv`, a row of a calm name that the tick or an `Ack` has in flight is
  live, so that their unguarded `UPDATE`s bring nothing back, done or lost. `CancelFacts`
  says what a cancellation leaves alive, which is what was running, and `CancelKeeps` that
  one which meets nothing leaves nothing. `UpdateKeeps` deals with the `UPDATE`s by id,
  `CallKeeps` with the calls, name by name. `CancelledStays` needs types only: a row
  gets in flight by a read that finds it pending or awaiting an ack.
* `PapersAreLinked` (`NewPapersLinked`): by `Sound`, what a call knows of the tables. An
  id it has as that of a paper it added is the paper's (`Known`); what it has left to link
  are the last of its ids, and the new ones before them are linked already (`Linking`).
  Tables only grow (`Grown`), so that no step of another call changes what one knows
  (`SoundStays`); that a call may also have ids that are wrong, which `ResultsLinked`
  is about, only makes some inserts do nothing.
* `ReportsAreTrue` (`ReportsHold`): by `Sound`, what a call saw of the data when it began
  has come as far as the call has: into the database or the log, into what can be
  restored from the index once it has added, unless that copy is torn, into a commit once
  it pushes. By `Progress`, database, commits and remote only grow, whoever moves them,
  and a copy that replaces the index has all of the data or is torn: the log, read last,
  goes to the last write, and begins behind the copy of the file if and only if it was
  truncated since. `CopiesInv` bounds what copies hold by what was written and committed.
* `NoHandleLeaks` (`NoneLeaked`): by `CacheInv`, the cache holds all handles that are
  open and no other, each once, and a caller's handle is cached or closed. The second
  look into the cache, under the write lock, is what keeps it.
* `NothingIsCutOut` (`NothingCutOut`): by `EndInv`, every chunk ends within what is split,
  so that the next one begins behind it; by `PostInv`, what is posted are the chunks
  before the next one, blank ones aside. `CutFacts` is about the boundaries: a cut takes
  no more than the limit, its separator included, and drops newlines only. `TrimFacts` is
  about the blanks at the ends of a chunk.
* `TypeCorrect` (`TypeOK`) collects the type invariants, which have a few things to
  say besides: links are of rows that exist, a paper with a PDF has one on disk, the
  database file is not ahead of the data nor the remote of the commits.

Two definitions go through data step by step: `Unseen`, which drops the papers of
a title seen before, and the extrema of a set in `LastCut` and `Trim`. What the proofs
need of them, that `Unseen` yields papers and that the extrema are attained, follows
from the least element of a set of numbers (`Least`), as `UnseenType` and `MinMax` show;
no induction theorem with an operator as its parameter is used.

Model-checked only: liveness, which under fairness is out of the prover's reach:
`DueTaskFires` and `StopReturns` of the schedule, `StopEnds` and `MessageSettles` of the
pipeline, `TermEnds` and `ExitRestarted` of the coordinator, and `TextDelivered` of
Telegram. Nothing is proved of the four properties that do not hold.

## Not modelled

The parts without a module are listed in `PROJECT.json`, with the reason: the MCP
registry and the configuration are sequential and shared with nobody, rogue-scraper
keeps no state, rogue-telegram only reads. Of the modelled parts: what messages say,
logging, typing indicators, reactions, prompts, personas and tags; the
unsynchronised read of `ProcessState`, which can only see an older value for a
while; cron expressions that never match; the chat type, `scheduled` for a message of the
tick, that `trackUserChannel` writes over the earlier one and on which rogue-telegram's
choice of a channel depends; a SIGTERM that finds the coordinator's buffer full; files on
disk other than PDFs.

## Plan

What is left: environment substitution of the configuration and the parsing of power
files, as algorithms against a reference definition.
