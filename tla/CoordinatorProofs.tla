------------------------- MODULE CoordinatorProofs -------------------------
(***************************************************************************)
(* The safety properties of Coordinator, for any number of processes and   *)
(* builds.                                                                 *)
(***************************************************************************)
EXTENDS Coordinator, TLAPS

\* Processes are numbered in the order they are started; there is one as soon as
\* the coordinator watches, and a stop in progress is on its way to a restart
\* unless it was asked to exit.
NumberInv ==
  /\ \A p \in Procs : proc[p] = "none" <=> p > cmd
  /\ cmd = 0 => coord \in {"boot", "exited"}
  /\ coord = "boot" => cmd = 0
  /\ coord = "start" => after # "exit"
  /\ binary = 0 => builds < MaxBuilds

\* Only a dead process has an exit status, and the stopping Wait returns only for
\* a dead process.
WaitInv ==
  /\ \A p \in Procs : state[p] # "nil" => p \in Dead
  /\ coord = "wait" /\ "stop" \notin waiters[cmd] => cmd \in Dead

\* Every process before the current one is dead, or was killed.
PastInv == \A p \in Procs : p < cmd => p \in Dead \cup killed

IInv == TypeOK /\ NumberInv /\ WaitInv /\ PastInv /\ NoOverlap

-----------------------------------------------------------------------------
USE ConstantsAssumption DEF Procs, Versions, Dead, Alive, child, env

\* A coordinator that has started nothing satisfies the invariant.
LEMMA InitIInv == Init => IInv
BY DEF Init, IInv, TypeOK, NumberInv, WaitInv, PastInv, NoOverlap

\* A start, of the first process or the next, preserves the invariant: the one
\* before it is dead or was killed.
LEMMA StartStep ==
  ASSUME IInv, Boot \/ Restart
  PROVE  IInv'
<1>1. PICK next \in {"sum", "watch", "check"} : Start(next)
  BY DEF Boot, Restart, IInv, TypeOK, NumberInv
<1>2. \A p \in Procs : p < cmd' => p \in Dead \cup killed
  BY <1>1 DEF Start, Boot, Restart, IInv, TypeOK, NumberInv, PastInv, NoOverlap
<1>3. TypeOK'
  BY <1>1 DEF Start, IInv, TypeOK, NumberInv
<1>4. NumberInv'
  BY <1>1 DEF Start, IInv, TypeOK, NumberInv
<1>5. WaitInv'
  BY <1>1 DEF Start, IInv, TypeOK, NumberInv, WaitInv
<1>6. PastInv'
  BY <1>1, <1>2 DEF Start, IInv, TypeOK, PastInv
<1>7. NoOverlap'
  BY <1>1 DEF Start, NoOverlap
<1>8. QED
  BY <1>3, <1>4, <1>5, <1>6, <1>7 DEF IInv

\* The steps of the coordinator that leave the processes alone preserve it.
LEMMA WatchStep ==
  ASSUME IInv, BootFails \/ Sum \/ Watch \/ Check \/ Pause \/ OnSignal \/ RestartFails
  PROVE  IInv'
<1> USE DEF BootFails, Sum, Watch, Check, Pause, OnSignal, RestartFails
<1>1. TypeOK'
  <2>1. CASE BootFails \/ Sum \/ Watch \/ Check \/ Pause \/ OnSignal
    BY <2>1 DEF IInv, TypeOK, NumberInv
  <2>2. CASE RestartFails
    <3>1. trouble' \in 0..(MaxProcs - 1)
      BY <2>2 DEF IInv, TypeOK
    <3>2. QED
      BY <2>2, <3>1 DEF IInv, TypeOK, NumberInv
  <2>3. QED
    BY <2>1, <2>2
<1>2. NumberInv'
  BY DEF IInv, TypeOK, NumberInv
<1>3. WaitInv' /\ PastInv' /\ NoOverlap'
  BY DEF IInv, TypeOK, NumberInv, WaitInv, PastInv, NoOverlap
<1>4. QED
  BY <1>1, <1>2, <1>3 DEF IInv

\* A stop preserves it: it goes on at once only if a Wait has seen the process die.
LEMMA StopStep ==
  ASSUME IInv, Stop
  PROVE  IInv'
<1>1. cmd \in Procs
  BY DEF Stop, IInv, TypeOK, NumberInv
<1> DEFINE called == [waiters EXCEPT ![cmd] = @ \cup {"stop"}]
<1>2. TypeOK'
  <2>1. proc' \in [Procs -> {"none", "up", "term", "exited", "signaled"}] /\ Dead \subseteq Dead'
    BY <1>1 DEF Stop, IInv, TypeOK
  <2>2. called \in [Procs -> SUBSET {"background", "stop"}]
    BY <1>1 DEF IInv, TypeOK
  <2>3. /\ waiters' \in [Procs -> SUBSET {"background", "stop"}]
        /\ coord' \in {"wait", "start", "exited"}
    BY <2>2 DEF Stop, StopDone, IInv, TypeOK
  <2>4. UNCHANGED <<after, sig, cmd, last, version, state, told, killed, env>>
    BY DEF Stop
  <2>5. QED
    BY <2>1, <2>3, <2>4 DEF IInv, TypeOK
<1>3. NumberInv'
  BY <1>1 DEF Stop, StopDone, IInv, TypeOK, NumberInv
<1>4. WaitInv'
  <2>1. Dead \subseteq Dead' /\ UNCHANGED <<cmd, state>>
    BY <1>1 DEF Stop, IInv, TypeOK
  <2>2. "stop" \in called[cmd]
    BY <1>1 DEF IInv, TypeOK
  <2>3. coord' = "wait" => "stop" \in waiters'[cmd']
    BY <2>1, <2>2 DEF Stop, StopDone
  <2>4. QED
    BY <2>1, <2>3 DEF IInv, WaitInv
<1>5. PastInv'
  BY <1>1 DEF Stop, IInv, TypeOK, PastInv
<1>6. NoOverlap'
  BY <1>1 DEF Stop, StopDone, IInv, TypeOK, WaitInv, NoOverlap
<1>7. QED
  BY <1>2, <1>3, <1>4, <1>5, <1>6 DEF IInv

\* So does the end of its wait, by the second Wait or by the timeout.
LEMMA StoppedStep ==
  ASSUME IInv, Stopped \/ StopTimeout
  PROVE  IInv'
<1> USE DEF Stopped, StopTimeout, StopDone
<1>1. TypeOK'
  <2>1. cmd \in Procs
    BY DEF IInv, TypeOK, NumberInv
  <2>2. killed' \subseteq Procs /\ coord' \in {"start", "exited"}
    BY <2>1 DEF IInv, TypeOK
  <2>3. UNCHANGED <<after, sig, cmd, last, proc, version, waiters, state, told, env>>
    OBVIOUS
  <2>4. QED
    BY <2>2, <2>3 DEF IInv, TypeOK
<1>2. NumberInv'
  BY DEF IInv, TypeOK, NumberInv
<1>3. WaitInv' /\ PastInv'
  BY DEF IInv, TypeOK, NumberInv, WaitInv, PastInv
<1>4. NoOverlap'
  BY DEF IInv, TypeOK, WaitInv, NoOverlap
<1>5. QED
  BY <1>1, <1>2, <1>3, <1>4 DEF IInv

\* A process that ends preserves it: the dead stay dead.
LEMMA EndStep ==
  ASSUME IInv, NEW p \in Procs, ExitCrash(p) \/ ExitStopped(p) \/ Die(p)
  PROVE  IInv'
<1>1. PICK s \in {"exited", "signaled"} : proc' = [proc EXCEPT ![p] = s]
  BY DEF ExitCrash, ExitStopped, Die
<1>2. /\ UNCHANGED <<coord, after, sig, cmd, last, version, waiters, state, told, killed>>
      /\ UNCHANGED <<binary, builds>>
      /\ proc[p] \in {"up", "term"}
  BY DEF ExitCrash, ExitStopped, Die
<1>3. trouble' \in 0..(MaxProcs - 1)
  BY DEF ExitCrash, ExitStopped, Die, IInv, TypeOK
<1>4. Dead \subseteq Dead'
  BY <1>1, <1>2 DEF IInv, TypeOK
<1>5. TypeOK'
  <2>1. proc' \in [Procs -> {"none", "up", "term", "exited", "signaled"}]
    BY <1>1 DEF IInv, TypeOK
  <2>2. told' \subseteq Dead'
    BY <1>2, <1>4 DEF IInv, TypeOK
  <2>3. QED
    BY <1>2, <1>3, <2>1, <2>2 DEF IInv, TypeOK
<1>6. NumberInv'
  BY <1>1, <1>2 DEF IInv, TypeOK, NumberInv
<1>7. WaitInv'
  BY <1>2, <1>4 DEF IInv, WaitInv
<1>8. PastInv' /\ NoOverlap'
  BY <1>2, <1>4 DEF IInv, PastInv, NoOverlap
<1>9. QED
  BY <1>5, <1>6, <1>7, <1>8 DEF IInv

\* A Wait that returns preserves it: it returns for a dead process only.
LEMMA WaitStep ==
  ASSUME IInv, NEW p \in Procs, NEW w \in {"background", "stop"}, WaitReturns(p, w)
  PROVE  IInv'
<1>1. TypeOK'
  BY DEF WaitReturns, IInv, TypeOK
<1>2. NumberInv'
  BY DEF WaitReturns, IInv, TypeOK, NumberInv
<1>3. WaitInv'
  BY DEF WaitReturns, IInv, TypeOK, NumberInv, WaitInv
<1>4. PastInv' /\ NoOverlap'
  BY DEF WaitReturns, IInv, PastInv, NoOverlap
<1>5. QED
  BY <1>1, <1>2, <1>3, <1>4 DEF IInv

\* Signals and builds preserve it: they touch no process.
LEMMA EnvStepLemma ==
  ASSUME IInv, EnvStep
  PROVE  IInv'
<1>1. /\ UNCHANGED <<coord, after, cmd, last, child>>
      /\ sig' \in {"HUP", "USR1", "TERM", NoSignal}
  BY DEF EnvStep, SendSignal, BuildRemoves, BuildWrites, IInv, TypeOK
<1>2. trouble' \in 0..(MaxProcs - 1)
  BY DEF EnvStep, SendSignal, BuildRemoves, BuildWrites, IInv, TypeOK
<1>3. builds' \in 1..MaxBuilds /\ binary' \in Versions /\ (binary' = 0 => builds' < MaxBuilds)
  <2>1. CASE \E s \in {"HUP", "USR1", "TERM"} : SendSignal(s)
    BY <2>1 DEF SendSignal, IInv, TypeOK, NumberInv
  <2>2. CASE BuildRemoves
    BY <2>2 DEF BuildRemoves, IInv, TypeOK
  <2>3. CASE BuildWrites
    BY <2>3 DEF BuildWrites, IInv, TypeOK, NumberInv
  <2>4. QED
    BY <2>1, <2>2, <2>3 DEF EnvStep
<1>4. TypeOK'
  BY <1>1, <1>2, <1>3 DEF IInv, TypeOK
<1>5. NumberInv'
  BY <1>1, <1>3 DEF IInv, NumberInv
<1>6. WaitInv' /\ PastInv' /\ NoOverlap'
  BY <1>1 DEF IInv, WaitInv, PastInv, NoOverlap
<1>7. QED
  BY <1>4, <1>5, <1>6 DEF IInv

\* The invariant holds in every behaviour.
LEMMA Inductive == Spec => []IInv
<1>1. IInv /\ [Next]_vars => IInv'
  <2> SUFFICES ASSUME IInv, [Next]_vars PROVE IInv'
    OBVIOUS
  <2>1. CASE CoordStep \/ OnSignal
    BY <2>1, StartStep, WatchStep, StopStep, StoppedStep DEF CoordStep
  <2>2. CASE ProcStep
    BY <2>2, EndStep, WaitStep DEF ProcStep
  <2>3. CASE EnvStep
    BY <2>3, EnvStepLemma
  <2>4. CASE UNCHANGED vars
    BY <2>4 DEF vars, IInv, TypeOK, NumberInv, WaitInv, PastInv, NoOverlap
  <2>5. QED
    BY <2>1, <2>2, <2>3, <2>4 DEF Next
<1>2. QED
  BY <1>1, InitIInv, PTL DEF Spec

-----------------------------------------------------------------------------
(* The theorems.                                                           *)

\* The coordinator's state keeps its shape: the numbers of processes and builds
\* stay in range, and only a dead process has told its status.
THEOREM TypeCorrect == Spec => []TypeOK
<1>1. IInv => TypeOK
  BY DEF IInv
<1>2. QED
  BY <1>1, Inductive, PTL

\* A restart, or the coordinator's exit, leaves no process behind that is neither
\* dead nor killed, whichever of the two Waits got its status.
THEOREM RestartWaits == Spec => []NoOverlap
<1>1. IInv => NoOverlap
  BY DEF IInv
<1>2. QED
  BY <1>1, Inductive, PTL

\* There is one pipeline at a time, but for those that SIGKILL is on its way to.
THEOREM OnePipelineAtATime == Spec => []OnePipeline
<1>1. IInv => OnePipeline
  <2> SUFFICES ASSUME IInv, NEW p \in Alive \ killed
               PROVE  p = cmd /\ coord # "exited"
    BY DEF OnePipeline
  <2>1. cmd \in 0..MaxProcs /\ p \in Procs /\ ~(p > cmd) /\ ~(p < cmd)
    BY DEF IInv, TypeOK, NumberInv, PastInv
  <2>2. p = cmd /\ cmd # 0
    BY <2>1
  <2>3. QED
    BY <2>2 DEF IInv, NoOverlap
<1>2. QED
  BY <1>1, Inductive, PTL

=============================================================================
