---------------------------- MODULE Coordinator ----------------------------
(***************************************************************************)
(* cmd/rogue-coordinator: one goroutine that starts the pipeline process,  *)
(* watches its binary and its death, and acts on signals; the goroutines   *)
(* that wait for a process to end; the processes themselves.               *)
(***************************************************************************)
EXTENDS Naturals, FiniteSets

CONSTANTS
  MaxProcs,       \* bound of the model: processes started
  MaxBuilds,      \* bound of the model: versions of the binary
  SignalDeaths,   \* whether a process may die of a signal nobody here sent
  NoSignal

Procs == 1..MaxProcs

\* Version 0 is a binary that cannot be read, or run.
Versions == 0..MaxBuilds

ASSUME ConstantsAssumption ==
  /\ MaxProcs \in Nat \ {0} /\ MaxBuilds \in Nat \ {0}
  /\ SignalDeaths \in BOOLEAN
  /\ NoSignal \notin {"HUP", "USR1", "TERM"}

VARIABLES
  coord,      \* where the coordinator's goroutine is
  after,      \* what follows the stop or restart in progress
  sig,        \* the buffer of sigCh, of one signal
  cmd,        \* c.cmd, by the number of its process; 0 before the first
  last,       \* lastChecksum, by the version it was computed from
  proc,       \* proc[p]: life of process p
  version,    \* version[p]: the binary that p runs
  waiters,    \* waiters[p]: goroutines inside cmd.Wait for p
  state,      \* state[p]: cmd.ProcessState of p
  told,       \* told[p]: whether one Wait for p has returned its exit status
  killed,     \* processes that were sent SIGKILL
  binary, builds, trouble  \* the file; how often it was built; bounds what happens to it

child == <<proc, version, waiters, state, told, killed>>
env   == <<binary, builds, trouble>>
vars  == <<coord, after, sig, cmd, last, child, env>>

Dead  == {p \in Procs : proc[p] \in {"exited", "signaled"}}
Alive == {p \in Procs : proc[p] \in {"up", "term"}}

TypeOK ==
  /\ coord \in {"boot", "sum", "watch", "check", "pause", "stop", "wait", "start", "exited"}
  /\ after \in {"watch", "check", "sum", "exit"}
  /\ sig \in {"HUP", "USR1", "TERM", NoSignal}
  /\ cmd \in 0..MaxProcs /\ last \in Versions
  /\ proc \in [Procs -> {"none", "up", "term", "exited", "signaled"}]
  /\ version \in [Procs -> Versions]
  /\ waiters \in [Procs -> SUBSET {"background", "stop"}]
  /\ state \in [Procs -> {"nil", "exited", "signaled"}]
  /\ told \subseteq Dead /\ killed \subseteq Procs
  /\ binary \in Versions /\ builds \in 1..MaxBuilds /\ trouble \in 0..(MaxProcs - 1)

Init ==
  /\ coord = "boot" /\ after = "watch" /\ sig = NoSignal /\ cmd = 0 /\ last = 0
  /\ proc = [p \in Procs |-> "none"] /\ version = [p \in Procs |-> 0]
  /\ waiters = [p \in Procs |-> {}] /\ state = [p \in Procs |-> "nil"]
  /\ told = {} /\ killed = {}
  /\ binary = 1 /\ builds = 1 /\ trouble = 0

-----------------------------------------------------------------------------
(* The coordinator's goroutine.                                            *)

\* startPipeline: a new process, and a goroutine that waits for its end.
Start(next) ==
  /\ cmd < MaxProcs /\ binary # 0
  /\ cmd' = cmd + 1
  /\ proc' = [proc EXCEPT ![cmd'] = "up"] /\ version' = [version EXCEPT ![cmd'] = binary]
  /\ waiters' = [waiters EXCEPT ![cmd'] = {"background"}]
  /\ coord' = next
  /\ UNCHANGED <<after, sig, last, state, told, killed, env>>

Boot == coord = "boot" /\ Start("sum")

BootFails ==
  /\ coord = "boot"
  /\ coord' = "exited"
  /\ UNCHANGED <<after, sig, cmd, last, child, env>>

\* The checksum, of whatever the file is by now.
Sum ==
  /\ coord = "sum"
  /\ last' = binary /\ coord' = "watch"
  /\ UNCHANGED <<after, sig, cmd, child, env>>

\* A tick: the binary is compared; a restart for a new one, then the check for a
\* crash in the same turn.
Watch ==
  /\ coord = "watch"
  /\ IF binary # last /\ last # 0 /\ binary # 0
     THEN last' = binary /\ coord' = "stop" /\ after' = "check"
     ELSE coord' = "check" /\ UNCHANGED <<last, after>>
  /\ UNCHANGED <<sig, cmd, child, env>>

CheckInverted ==
  /\ coord = "check"
  /\ coord' = IF state[cmd] = "signaled" THEN "pause" ELSE "watch"
  /\ UNCHANGED <<after, sig, cmd, last, child, env>>

\* ProcessState.Exited() is false of a process that died of a signal.
Check ==
  /\ coord = "check"
  /\ coord' = IF state[cmd] = "exited" THEN "pause" ELSE "watch"
  /\ UNCHANGED <<after, sig, cmd, last, child, env>>

\* The second's pause, then restartPipeline and a new checksum.
Pause ==
  /\ coord = "pause"
  /\ coord' = "stop" /\ after' = "sum"
  /\ UNCHANGED <<sig, cmd, last, child, env>>

OnSignalNoReturn ==
  /\ coord = "watch" /\ sig # NoSignal
  /\ sig' = NoSignal
  /\ IF sig = "USR1"
     THEN UNCHANGED <<coord, after>>
     ELSE coord' = "stop" /\ after' = "watch"
  /\ UNCHANGED <<cmd, last, child, env>>

\* SIGUSR1 is forwarded to a pipeline that does not handle it, and ignores it.
OnSignal ==
  /\ coord = "watch" /\ sig # NoSignal
  /\ sig' = NoSignal
  /\ IF sig = "USR1"
     THEN UNCHANGED <<coord, after>>
     ELSE coord' = "stop" /\ after' = (IF sig = "HUP" THEN "watch" ELSE "exit")
  /\ UNCHANGED <<cmd, last, child, env>>

StopDone == IF after = "exit" THEN "exited" ELSE "start"

\* stopPipeline: SIGTERM, which kills a pipeline that does not handle signals yet,
\* and a second Wait, an error at once if the first has returned a status.
Stop ==
  /\ coord = "stop"
  /\ IF cmd \in Alive
     THEN \E s \in {"term", "signaled"} : proc' = [proc EXCEPT ![cmd] = s]
     ELSE UNCHANGED proc
  /\ IF state[cmd] = "nil"
     THEN waiters' = [waiters EXCEPT ![cmd] = @ \cup {"stop"}] /\ coord' = "wait"
     ELSE UNCHANGED waiters /\ coord' = StopDone
  /\ UNCHANGED <<after, sig, cmd, last, version, state, told, killed, env>>

StoppedUnwaited ==
  /\ coord = "wait" /\ "stop" \in waiters[cmd]
  /\ coord' = StopDone
  /\ UNCHANGED <<after, sig, cmd, last, child, env>>

\* The second Wait has returned.
Stopped ==
  /\ coord = "wait" /\ "stop" \notin waiters[cmd]
  /\ coord' = StopDone
  /\ UNCHANGED <<after, sig, cmd, last, child, env>>

StopTimeoutNoKill ==
  /\ coord = "wait" /\ "stop" \in waiters[cmd]
  /\ coord' = StopDone
  /\ UNCHANGED <<after, sig, cmd, last, child, env>>

\* 30 s later: SIGKILL, without waiting for it to take effect.
StopTimeout ==
  /\ coord = "wait" /\ "stop" \in waiters[cmd]
  /\ killed' = killed \cup {cmd}
  /\ coord' = StopDone
  /\ UNCHANGED <<after, sig, cmd, last, proc, version, waiters, state, told, env>>

Restart == coord = "start" /\ Start(after)

\* The binary is not there, or the system has no process to give. The error is logged,
\* and c.cmd remains the process that was stopped.
RestartFails ==
  /\ coord = "start"
  /\ \/ binary = 0 /\ trouble' = trouble
     \/ trouble < MaxProcs - 1 /\ trouble' = trouble + 1
  /\ coord' = after
  /\ UNCHANGED <<after, sig, cmd, last, child, binary, builds>>

-----------------------------------------------------------------------------
(* Processes, and the goroutines that wait for them.                       *)

ExitCrash(p) ==
  /\ proc[p] = "up" /\ trouble < MaxProcs - 1
  /\ trouble' = trouble + 1
  /\ \/ proc' = [proc EXCEPT ![p] = "exited"]
     \/ SignalDeaths /\ proc' = [proc EXCEPT ![p] = "signaled"]
  /\ UNCHANGED <<coord, after, sig, cmd, last, version, waiters, state, told, killed, binary, builds>>

\* Stop and the return of main; it may hang instead.
ExitStopped(p) ==
  /\ proc[p] = "term"
  /\ proc' = [proc EXCEPT ![p] = "exited"]
  /\ UNCHANGED <<coord, after, sig, cmd, last, version, waiters, state, told, killed, env>>

Die(p) ==
  /\ p \in killed \cap Alive
  /\ proc' = [proc EXCEPT ![p] = "signaled"]
  /\ UNCHANGED <<coord, after, sig, cmd, last, version, waiters, state, told, killed, env>>

WaitReturnsEarly(p, w) ==
  /\ w \in waiters[p]
  /\ waiters' = [waiters EXCEPT ![p] = @ \ {w}]
  /\ state' = [state EXCEPT ![p] = proc[p]] /\ told' = told \cup {p}
  /\ UNCHANGED <<coord, after, sig, cmd, last, proc, version, killed, env>>

\* cmd.Wait returns. Of two, one gets the status and the other an error; each
\* assigns what it got to ProcessState, in any order.
WaitReturns(p, w) ==
  /\ p \in Dead /\ w \in waiters[p]
  /\ waiters' = [waiters EXCEPT ![p] = @ \ {w}]
  /\ \/ p \notin told /\ state' = [state EXCEPT ![p] = proc[p]] /\ told' = told \cup {p}
     \/ /\ p \in told \/ waiters'[p] # {}
        /\ state' = [state EXCEPT ![p] = "nil"] /\ UNCHANGED told
  /\ UNCHANGED <<coord, after, sig, cmd, last, proc, version, killed, env>>

-----------------------------------------------------------------------------
(* What happens around them.                                               *)

\* A signal that finds the buffer full is dropped.
SendSignal(s) ==
  /\ coord # "exited" /\ sig = NoSignal
  /\ s = "HUP" => trouble < MaxProcs - 1
  /\ sig' = s /\ trouble' = IF s = "HUP" THEN trouble + 1 ELSE trouble
  /\ UNCHANGED <<coord, after, cmd, last, child, binary, builds>>

\* A build removes the file, then writes the new one.
BuildRemoves ==
  /\ binary # 0 /\ builds < MaxBuilds /\ trouble < MaxProcs - 1
  /\ binary' = 0 /\ trouble' = trouble + 1
  /\ UNCHANGED <<coord, after, sig, cmd, last, child, builds>>

BuildWrites ==
  /\ binary = 0
  /\ builds' = builds + 1 /\ binary' = builds + 1
  /\ UNCHANGED <<coord, after, sig, cmd, last, child, trouble>>

-----------------------------------------------------------------------------
CoordStep ==
  \/ Boot \/ BootFails \/ Sum \/ Watch \/ Check \/ Pause \/ Stop
  \/ Stopped \/ StopTimeout \/ Restart \/ RestartFails
ProcStep ==
  \E p \in Procs : \/ ExitCrash(p) \/ ExitStopped(p) \/ Die(p)
                   \/ \E w \in {"background", "stop"} : WaitReturns(p, w)
EnvStep ==
  \/ \E s \in {"HUP", "USR1", "TERM"} : SendSignal(s)
  \/ BuildRemoves \/ BuildWrites

Next == CoordStep \/ OnSignal \/ ProcStep \/ EnvStep

Spec == Init /\ [][Next]_vars

(***************************************************************************)
(* Fairness: the coordinator's goroutine and the waiting ones are          *)
(* scheduled, its select does not prefer ticks to signals forever, SIGKILL *)
(* takes effect and a build that removed the file writes it. A stopping    *)
(* pipeline need not exit.                                                 *)
(***************************************************************************)
Fairness ==
  /\ WF_vars(CoordStep) /\ SF_vars(OnSignal)
  /\ \A p \in Procs : WF_vars(Die(p)) /\ WF_vars(\E w \in waiters[p] : WaitReturns(p, w))
  /\ WF_vars(BuildWrites)

FairSpec == Spec /\ Fairness

-----------------------------------------------------------------------------
(* Properties.                                                             *)

\* No two pipelines poll the same bot or fire the same tasks for long: a process
\* other than the current one has been killed, and so has the current one when
\* the coordinator is gone.
OnePipeline ==
  \A p \in Alive \ killed : p = cmd /\ coord # "exited"

\* A restart starts the next pipeline, and the coordinator leaves, only when the
\* current one is dead or was killed: a Wait that fails because the other one got
\* the status still means that.
NoOverlap ==
  coord \in {"start", "exited"} /\ cmd # 0 => cmd \in Dead \cup killed

\* A shutdown signal that is in the buffer ends the coordinator, however long the
\* restarts in progress take.
TermEnds == sig = "TERM" ~> coord = "exited"

\* What SPEC.md and README.md say of crash recovery: a pipeline that died is
\* replaced by another.
CrashRestarted ==
  cmd \in Dead ~> cmd \in Alive \/ coord = "exited"

\* A pipeline that ended by itself with an exit code, which Wait has returned, is
\* replaced as soon as the binary can be run, failed restarts or not.
ExitRestarted ==
  cmd # 0 /\ state[cmd] = "exited" /\ waiters[cmd] = {} ~> cmd \in Alive \/ coord = "exited"

=============================================================================
