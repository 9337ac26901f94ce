------------------------------- MODULE Intake -------------------------------
(***************************************************************************)
(* What the pipeline promises of the messages it takes in, whoever sends   *)
(* them and whatever becomes of each: a bounded queue that one server      *)
(* works off in order, a job at a time, each job once. A job may leave     *)
(* another in its place. Closed, the queue takes nothing more; and the     *)
(* process may end at any time, with jobs undone. Pipeline implements it.  *)
(***************************************************************************)
EXTENDS Naturals, Sequences

CONSTANTS
  Jobs, None,  \* jobs; no job
  Capacity     \* of the queue

VARIABLES
  queue,       \* jobs that wait
  job,         \* the job being served, or None
  done,        \* jobs that have been served
  phase        \* "open", "closed" or "over"

vars == <<queue, job, done, phase>>

Init == queue = <<>> /\ job = None /\ done = {} /\ phase = "open"

\* j has never been here.
Fresh(j) == j \notin done /\ j # job /\ \A i \in 1..Len(queue) : queue[i] # j

Accept(j) ==
  /\ phase = "open" /\ Len(queue) < Capacity /\ Fresh(j)
  /\ queue' = Append(queue, j)
  /\ UNCHANGED <<job, done, phase>>

Serve ==
  /\ phase # "over" /\ job = None /\ queue # <<>>
  /\ job' = Head(queue) /\ queue' = Tail(queue)
  /\ UNCHANGED <<done, phase>>

Finish ==
  /\ phase # "over" /\ job # None
  /\ done' = done \cup {job} /\ job' = None
  /\ UNCHANGED <<queue, phase>>

\* The served job ends with another one that goes to the back of the queue.
Forward(j) ==
  /\ phase = "open" /\ job # None /\ Len(queue) < Capacity /\ Fresh(j)
  /\ queue' = Append(queue, j) /\ done' = done \cup {job} /\ job' = None
  /\ UNCHANGED phase

Close ==
  /\ phase = "open" /\ phase' = "closed"
  /\ UNCHANGED <<queue, job, done>>

End ==
  /\ phase # "over" /\ phase' = "over"
  /\ UNCHANGED <<queue, job, done>>

Next == Serve \/ Finish \/ Close \/ End \/ \E j \in Jobs : Accept(j) \/ Forward(j)

Spec == Init /\ [][Next]_vars

=============================================================================
