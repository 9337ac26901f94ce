------------------------------ MODULE Pipeline ------------------------------
(***************************************************************************)
(* The message path of the pipeline process, core/pipeline.go and the      *)
(* components it calls: goroutines that emit messages into the inbound     *)
(* channel (sources/, core/schedule.go, core/telepath.go), the one loop    *)
(* that takes each through Helmet, the approval gate, Cerebro and Warp, a  *)
(* reply that an agent source turns into a message of its own, and Stop.   *)
(*                                                                         *)
(* Schedule says when a task fires, this module what happens to messages;  *)
(* a blocking channel operation, a database call and the provider's run    *)
(* are separate steps, between which the other goroutines move.            *)
(***************************************************************************)
EXTENDS Naturals, Sequences

CONSTANTS
  Origins,          \* source ids that messages and replies may carry
  Sources,          \* those of them that are registered
  AgentSources,     \* those of type "agent"
  Tick, Drain,      \* the schedule's goroutine; the main goroutine inside Stop
  Readers,          \* goroutines that read lines and emit them (cli)
  Flushers,         \* timer goroutines that flush a chat buffer (telegram)
  Emits,            \* Emits[p]: the [src, user, reply] that goroutine p may emit
  Loop, None,       \* the loop goroutine; nobody
  Users, Roots,     \* user ids; those the root resolver accepts
  NoUser,           \* the empty user id
  RequireApproval, MaxDepth, InboundCap,
  Redirects,        \* cross-channel targets a provider may return
  MaxMsgs, MaxHops  \* bounds of the model: messages emitted, agent replies to each

Producers == Readers \cup Flushers \cup {Tick, Drain}

\* id, from and hops are history: the number of the emitted message this one is
\* or descends from, the goroutine that sent it, and how many times it has in
\* fact been passed from agent to agent.
Message == [id : 1..MaxMsgs, from : Producers \cup {Loop}, src : Origins,
            user : Users, reply : BOOLEAN, depth : Nat, hops : 0..MaxHops]

\* What tells one message from another.
Key(m) == <<m.id, m.hops>>
Keys == (1..MaxMsgs) \X (0..MaxHops)

ASSUME ConstantsAssumption ==
  /\ Sources \subseteq Origins /\ AgentSources \subseteq Sources /\ Redirects \subseteq Origins
  /\ \A p \in Producers : Emits[p] \subseteq [src : Origins, user : Users, reply : BOOLEAN]
  /\ Loop \notin Producers /\ None \notin Producers \cup {Loop} \cup Origins
  /\ None \notin Message \cup Keys
  /\ Tick # Drain /\ Tick \notin Readers \cup Flushers /\ Drain \notin Readers \cup Flushers
  /\ NoUser \in Users /\ Roots \subseteq Users
  /\ RequireApproval \in BOOLEAN
  /\ MaxDepth \in Nat /\ InboundCap \in Nat \ {0} /\ MaxMsgs \in Nat /\ MaxHops \in Nat

VARIABLES
  main,      \* where the main goroutine is in Start, its wait and Stop
  gone,      \* emitting goroutines that have returned
  held,      \* held[p]: the message p is sending
  inbound,   \* the inbound channel
  loop,      \* where the loop is in handleMessage
  cur,       \* the message it is handling
  target,    \* the source its reply goes to
  known,     \* rows of the users table
  approved, blocked,  \* its columns
  panicked,  \* the goroutine whose send panicked, which ends the process
  sent,      \* messages emitted so far
  accepted, settled   \* history: those that entered the channel; whose handling ended

users == <<known, approved, blocked>>
hist  == <<accepted, settled>>
vars  == <<main, gone, held, inbound, loop, cur, target, users, panicked, sent, hist>>

TypeOK ==
  /\ main \in {"telepath", "schedule", "loop", "serving", "stopping", "draining",
               "closed", "cancelled", "exited"}
  /\ gone \subseteq Producers
  /\ held \in [Producers -> Message \cup {None}]
  /\ inbound \in Seq(Message) /\ Len(inbound) <= InboundCap
  /\ loop \in {"off", "select", "process", "run", "route", "gone"}
  /\ cur \in Message \cup {None}
  /\ target \in Origins \cup {None}
  /\ known \subseteq Users /\ approved \subseteq known /\ blocked \subseteq known
  /\ panicked \in Producers \cup {Loop, None}
  /\ sent \in 0..MaxMsgs
  /\ accepted \subseteq Keys /\ settled \subseteq accepted

Init ==
  /\ main = "telepath" /\ gone = {} /\ held = [p \in Producers |-> None]
  /\ inbound = <<>> /\ loop = "off" /\ cur = None /\ target = None
  /\ known = {} /\ approved = {} /\ blocked = {}
  /\ panicked = None /\ sent = 0 /\ accepted = {} /\ settled = {}

Ended     == main = "exited" \/ panicked # None
Closed    == main \in {"closed", "cancelled"}
Cancelled == main = "cancelled"

-----------------------------------------------------------------------------
(* Goroutines that emit.                                                   *)

\* Sources run from telepath.Start on, the tick from schedule.Start on; a
\* stopped source's timers and reader are still there.
MayEmit(p) ==
  /\ p \notin gone
  /\ p = Tick => main \notin {"telepath", "schedule"}
  /\ p = Drain => main = "draining"
  /\ p \in Readers => ~Cancelled

\* A line is read, a timer fires, a due task is marked: p is about to send.
Emit(p) ==
  /\ ~Ended /\ MayEmit(p) /\ held[p] = None /\ sent < MaxMsgs
  /\ \E e \in Emits[p] :
       held' = [held EXCEPT ![p] =
         [id |-> sent + 1, from |-> p, src |-> e.src, user |-> e.user,
          reply |-> e.reply, depth |-> 0, hops |-> 0]]
  /\ sent' = sent + 1
  /\ UNCHANGED <<main, gone, inbound, loop, cur, target, users, panicked, hist>>

PushUnbounded(p) ==
  /\ ~Ended /\ ~Closed /\ held[p] # None
  /\ inbound' = Append(inbound, held[p]) /\ accepted' = accepted \cup {Key(held[p])}
  /\ held' = [held EXCEPT ![p] = None]
  /\ UNCHANGED <<main, gone, loop, cur, target, users, panicked, sent, settled>>

\* inbound <- msg, which waits for room.
Push(p) ==
  /\ ~Ended /\ ~Closed /\ held[p] # None
  /\ Len(inbound) < InboundCap
  /\ inbound' = Append(inbound, held[p]) /\ accepted' = accepted \cup {Key(held[p])}
  /\ held' = [held EXCEPT ![p] = None]
  /\ UNCHANGED <<main, gone, loop, cur, target, users, panicked, sent, settled>>

\* A send on the closed channel, also one that was waiting when it was closed.
Panic(p) ==
  /\ ~Ended /\ Closed /\ held[p] # None
  /\ panicked' = p
  /\ UNCHANGED <<main, gone, held, inbound, loop, cur, target, users, sent, hist>>

\* End of input, "/quit", or the context found cancelled before the send.
ReaderEnds(p) ==
  /\ ~Ended /\ p \in Readers \ gone /\ held[p] = None
  /\ gone' = gone \cup {p}
  /\ UNCHANGED <<main, held, inbound, loop, cur, target, users, panicked, sent, hist>>

\* The tick finds stopCh closed. (Its revert on a cancelled context never runs:
\* schedule.Stop waits for the tick before the context is cancelled.)
TickEnds ==
  /\ ~Ended /\ main = "stopping" /\ Tick \notin gone /\ held[Tick] = None
  /\ gone' = gone \cup {Tick}
  /\ UNCHANGED <<main, held, inbound, loop, cur, target, users, panicked, sent, hist>>

-----------------------------------------------------------------------------
(* The main goroutine: Start, the wait for a signal, Stop, and the return.  *)

MainTo(a, b) ==
  /\ ~Ended /\ main = a /\ main' = b
  /\ UNCHANGED <<gone, held, inbound, cur, target, users, panicked, sent, hist>>

StartTelepath == MainTo("telepath", "schedule") /\ UNCHANGED loop
StartSchedule == MainTo("schedule", "loop") /\ UNCHANGED loop
StartLoop     == MainTo("loop", "serving") /\ loop' = "select"

\* A source or the task table cannot be started: os.Exit(1).
StartFails ==
  /\ MainTo("telepath", "exited") \/ MainTo("schedule", "exited")
  /\ UNCHANGED loop

Signal == MainTo("serving", "stopping") /\ UNCHANGED loop

StopScheduleNoWait == MainTo("stopping", "draining") /\ UNCHANGED loop

\* schedule.Stop: wg.Wait for the tick goroutine.
StopSchedule ==
  /\ Tick \in gone
  /\ MainTo("stopping", "draining") /\ UNCHANGED loop

\* telepath.Stop: every source's Stop, which may drain its buffers into the
\* channel from this goroutine, then close(t.inbound).
StopTelepath ==
  /\ held[Drain] = None
  /\ MainTo("draining", "closed") /\ UNCHANGED loop

\* main returns: the deferred cancel, then store.Close and the end of the process.
Cancel == MainTo("closed", "cancelled") /\ UNCHANGED loop
Exit   == MainTo("cancelled", "exited") /\ UNCHANGED loop

-----------------------------------------------------------------------------
(* The loop, and the handling of one message.                              *)

ReceiveConcurrently ==
  /\ ~Ended /\ loop # "off" /\ loop # "gone" /\ inbound # <<>>
  /\ cur' = Head(inbound) /\ inbound' = Tail(inbound)
  /\ loop' = "process" /\ target' = None
  /\ UNCHANGED <<main, gone, held, users, panicked, sent, hist>>

ReceiveLast ==
  /\ ~Ended /\ loop = "select" /\ inbound # <<>>
  /\ cur' = inbound[Len(inbound)] /\ inbound' = SubSeq(inbound, 1, Len(inbound) - 1)
  /\ loop' = "process"
  /\ UNCHANGED <<main, gone, held, target, users, panicked, sent, hist>>

ReceiveWhileServing ==
  /\ ~Ended /\ loop = "select" /\ main = "serving" /\ inbound # <<>>
  /\ cur' = Head(inbound) /\ inbound' = Tail(inbound)
  /\ loop' = "process"
  /\ UNCHANGED <<main, gone, held, target, users, panicked, sent, hist>>

Receive ==
  /\ ~Ended /\ loop = "select" /\ inbound # <<>>
  /\ cur' = Head(inbound) /\ inbound' = Tail(inbound)
  /\ loop' = "process"
  /\ UNCHANGED <<main, gone, held, target, users, panicked, sent, hist>>

\* The channel is closed and empty, or the context is cancelled.
LoopEnds ==
  /\ ~Ended /\ loop = "select"
  /\ Closed /\ (inbound = <<>> \/ Cancelled)
  /\ loop' = "gone"
  /\ UNCHANGED <<main, gone, held, inbound, cur, target, users, panicked, sent, hist>>

SettleFatal ==
  /\ settled' = settled \cup {Key(cur)}
  /\ cur' = None /\ target' = None /\ loop' = "gone"

\* handleMessage returns, whatever the reason, and the loop goes on.
Settle ==
  /\ settled' = settled \cup {Key(cur)}
  /\ cur' = None /\ target' = None /\ loop' = "select"

RunUngated ==
  IF cur.user \notin blocked /\ cur.depth <= MaxDepth
  THEN loop' = "run" /\ UNCHANGED <<cur, target, settled>>
  ELSE Settle

\* Blocked users are rejected by Helmet, unapproved ones by the gate, chains of
\* agents that are too deep by Cerebro; the provider runs for the others.
Run ==
  IF /\ cur.user \notin blocked
     /\ RequireApproval => cur.user \in approved \cup Roots
     /\ cur.depth <= MaxDepth
  THEN loop' = "run" /\ UNCHANGED <<cur, target, settled>>
  ELSE Settle

\* helmet.Process: one read of the user's row, which it creates on first sight,
\* and the checks that follow from it; a database error rejects the message.
Process ==
  /\ ~Ended /\ loop = "process"
  /\ \/ Run /\ known' = known \cup {cur.user}
     \/ Settle /\ known' \in {known, known \cup {cur.user}}
  /\ UNCHANGED <<main, gone, held, inbound, approved, blocked, panicked, sent, accepted>>

\* The provider, or the preparation of its run, fails.
ProviderFails ==
  /\ ~Ended /\ loop = "run"
  /\ Settle
  /\ UNCHANGED <<main, gone, held, inbound, users, panicked, sent, accepted>>

\* It returns a result: Warp records it, and picks the reply's target unless the
\* message wants no reply.
ProviderReturns ==
  /\ ~Ended /\ loop = "run"
  /\ \/ ~cur.reply /\ Settle
     \/ /\ cur.reply /\ target' \in {cur.src} \cup Redirects
        /\ target' \in AgentSources => cur.hops < MaxHops
        /\ loop' = "route" /\ UNCHANGED <<cur, settled>>
  /\ UNCHANGED <<main, gone, held, inbound, users, panicked, sent, accepted>>

\* telepath.Outbound to an unknown source is an error; to a source that delivers
\* it the end of the handling, delivered or not.
Deliver ==
  /\ ~Ended /\ loop = "route" /\ target \notin AgentSources
  /\ Settle
  /\ UNCHANGED <<main, gone, held, inbound, users, panicked, sent, accepted>>

\* No provider is told its depth, and none returns "agent_turn_depth" or
\* "sender_agent" in the metadata of its result.
MetadataDepth == 0
MetadataSender == NoUser

\* agent.Send: the reply becomes a message, sent from the loop's own goroutine.
AgentSend ==
  LET msg == [id |-> cur.id, from |-> Loop, src |-> target, user |-> MetadataSender,
              reply |-> TRUE, depth |-> MetadataDepth + 1, hops |-> cur.hops + 1]
  IN /\ ~Ended /\ loop = "route" /\ target \in AgentSources
     /\ ~Closed /\ Len(inbound) < InboundCap
     /\ inbound' = Append(inbound, msg) /\ accepted' = accepted \cup {Key(msg)}
     /\ Settle
     /\ UNCHANGED <<main, gone, held, users, panicked, sent>>

AgentSendPanics ==
  /\ ~Ended /\ loop = "route" /\ target \in AgentSources /\ Closed
  /\ panicked' = Loop
  /\ UNCHANGED <<main, gone, held, inbound, loop, cur, target, users, sent, hist>>

\* case <-ctx.Done()
AgentSendCancelled ==
  /\ ~Ended /\ loop = "route" /\ target \in AgentSources /\ Cancelled
  /\ Settle
  /\ UNCHANGED <<main, gone, held, inbound, users, panicked, sent, accepted>>

-----------------------------------------------------------------------------
(* The user tools of rogue-iam, which run in processes of their own: they  *)
(* refuse an empty id, and update the row if there is one.                 *)

UserTool(u) ==
  /\ u # NoUser /\ u \in known
  /\ \/ approved' = approved \cup {u} /\ UNCHANGED blocked
     \/ blocked' = blocked \cup {u} /\ UNCHANGED approved
     \/ blocked' = blocked \ {u} /\ UNCHANGED approved
  /\ UNCHANGED <<main, gone, held, inbound, loop, cur, target, known, panicked, sent, hist>>

-----------------------------------------------------------------------------
ProducerStep ==
  \/ \E p \in Producers : Emit(p) \/ Push(p) \/ Panic(p) \/ ReaderEnds(p)
  \/ TickEnds
MainStep ==
  \/ StartTelepath \/ StartSchedule \/ StartLoop \/ StartFails
  \/ Signal \/ StopSchedule \/ StopTelepath \/ Cancel \/ Exit
LoopStep ==
  \/ Receive \/ LoopEnds \/ Process \/ ProviderFails \/ ProviderReturns
  \/ Deliver \/ AgentSend \/ AgentSendPanics \/ AgentSendCancelled

Next == ProducerStep \/ MainStep \/ LoopStep \/ \E u \in Users : UserTool(u)

Spec == Init /\ [][Next]_vars

(***************************************************************************)
(* Fairness: the runtime runs every goroutine that can run, a provider     *)
(* returns or fails, and a full channel serves its waiting senders in      *)
(* turn. Nothing is assumed of what emits, of signals or of the tools.     *)
(***************************************************************************)
Fairness ==
  /\ \A p \in Producers : SF_vars(Push(p))
  /\ SF_vars(TickEnds)
  /\ WF_vars(StartTelepath) /\ WF_vars(StartSchedule) /\ WF_vars(StartLoop)
  /\ WF_vars(StopSchedule) /\ WF_vars(StopTelepath) /\ WF_vars(Cancel) /\ WF_vars(Exit)
  /\ WF_vars(LoopStep)

FairSpec == Spec /\ Fairness

-----------------------------------------------------------------------------
(* Properties.                                                             *)

Keyed(s) == [i \in 1..Len(s) |-> Key(s[i])]
Current  == IF cur = None THEN {} ELSE {Key(cur)}
Queued   == {Key(inbound[i]) : i \in 1..Len(inbound)}

\* Messages are handled one at a time, each once: whatever entered the channel is
\* queued there, or being handled, or has been, and only one of these.
NothingLost ==
  /\ accepted = settled \cup Current \cup Queued
  /\ settled \cap (Current \cup Queued) = {} /\ Current \cap Queued = {}
  /\ \A i, j \in 1..Len(inbound) : Key(inbound[i]) = Key(inbound[j]) => i = j

\* The path of a message through Pipeline is that of a job through Intake, a queue
\* with one server: the channel is the queue, the loop serves, Stop closes it.
Job   == IF cur = None THEN None ELSE Key(cur)
Phase == IF Ended THEN "over" ELSE IF Closed THEN "closed" ELSE "open"
Serving == INSTANCE Intake WITH
  Jobs <- Keys, None <- None, Capacity <- InboundCap,
  queue <- Keyed(inbound), job <- Job, done <- settled, phase <- Phase

\* Pipeline implements Intake: in order, one at a time, each once, none after the
\* channel was closed, however producers, agents, errors and Stop interleave.
ImplementsIntake == Serving!Spec

\* With the approval gate on, no agent runs for another agent: their messages
\* carry no user, and nobody can approve that.
GateStopsHops ==
  RequireApproval /\ NoUser \notin Roots =>
    (loop \in {"run", "route"} => cur.hops = 0)

\* Stop closes the channel only when the schedule and the drained sources are
\* done with it: neither of them ever sends on a closed channel.
StopOrder == panicked \notin {Tick, Drain}

\* Stop ends the process: no wait in it, for the tick or for room in the channel,
\* lasts forever.
StopEnds == main = "stopping" ~> Ended

\* A message in the channel is handled to its end, unless the process is told to
\* stop: no error on the way of an earlier message ends the loop.
MessageSettles ==
  \A k \in Keys :
    k \in accepted ~> k \in settled \/ Ended \/ main \in {"stopping", "draining", "closed", "cancelled"}

\* What SPEC.md says of a shutdown: "Pipeline drains in-flight messages".
StopDrains == [][Exit => accepted = settled]_vars

\* What SPEC.md says of agent-to-agent messages: a chain longer than the system's
\* max is rejected.
HopsBounded == loop = "run" => cur.hops <= MaxDepth

=============================================================================
