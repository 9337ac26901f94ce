------------------------------ MODULE TaskLife ------------------------------
(***************************************************************************)
(* The life of scheduled tasks as docs/guide/scheduling.md tells it, with  *)
(* no clock, no order among tasks, no channel and no process: one worker   *)
(* takes open tasks, fires each once per licence and lets go of it; users  *)
(* acknowledge, postpone and close tasks at any moment. Schedule           *)
(* implements it.                                                          *)
(***************************************************************************)
CONSTANTS
  Tasks, NoTask,  \* tasks; no task
  Clients,        \* callers that acknowledge
  CronTasks,      \* tasks that come again
  AckTasks,       \* tasks that wait to be acknowledged once fired
  Faults          \* whether writes may be lost

VARIABLES
  life,      \* life[t]: "unborn", "open", "awaiting", "done" or "cancelled"
  held,      \* tasks the worker has taken and not fired
  sent,      \* the task it has fired and not let go of, or NoTask
  settling,  \* settling[c]: the task whose acknowledgement c has begun
  fired,     \* tasks fired since they were last licensed to
  doubted    \* tasks that may have been fired unknown to the table

vars == <<life, held, sent, settling, fired, doubted>>

Init ==
  /\ life = [t \in Tasks |-> "unborn"]
  /\ held = {} /\ sent = NoTask /\ fired = {} /\ doubted = {}
  /\ settling = [c \in Clients |-> NoTask]

-----------------------------------------------------------------------------
(* The worker. What it holds does not wait for an acknowledgement, and is  *)
(* closed only if it was closed after it had been taken.                   *)

Take(S) ==
  /\ held = {} /\ sent = NoTask /\ held' = S
  /\ \A t \in S : life[t] = "open" /\ t \notin fired \ doubted
  /\ UNCHANGED <<life, sent, settling, fired, doubted>>

\* A closed task in hand is open again, whether it is then kept or, with all
\* others, given back; and only a task to acknowledge can be done in hand.
Reopen(t) ==
  /\ t \in held /\ life[t] \in {"open", "done", "cancelled"}
  /\ life[t] = "done" => t \in AckTasks
  /\ \/ life' = [life EXCEPT ![t] = "open"] /\ doubted' = doubted
     \/ Faults /\ life' = life /\ doubted' = doubted \cup {t}
  /\ held' = held \/ held' = {}
  /\ UNCHANGED <<sent, settling, fired>>

\* A task in hand may be put back as it is.
PutBack(t) ==
  /\ Faults /\ t \in held /\ held' = held \ {t}
  /\ UNCHANGED <<life, sent, settling, fired, doubted>>

\* A task is fired on a licence it has not used, one task at a time ...
Fire(t) ==
  /\ t \in held /\ sent = NoTask /\ t \notin fired \ doubted
  /\ held' = held \ {t} /\ sent' = t /\ fired' = fired \cup {t}
  /\ UNCHANGED <<life, settling, doubted>>

\* ... and let go of: to be acknowledged, to come again, or done.
Become(t, l, f) ==
  life' = [life EXCEPT ![t] = l] /\ fired' = f /\ doubted' = doubted \ {t}

LetGo(t) ==
  /\ sent = t /\ life[t] \in {"open", "done", "cancelled"}
  /\ sent' = NoTask
  /\ \/ t \in AckTasks /\ Become(t, "awaiting", fired)
     \/ t \in CronTasks \ AckTasks /\ Become(t, "open", fired \ {t})
     \/ t \notin CronTasks \cup AckTasks /\ Become(t, "done", fired)
     \/ Faults /\ doubted' = doubted \cup {t} /\ UNCHANGED <<life, fired>>
  /\ UNCHANGED <<held, settling>>

\* The worker dies: that it has fired a task it had not let go of is forgotten.
Die ==
  /\ held' = {} /\ sent' = NoTask /\ fired' = fired \ {sent}
  /\ UNCHANGED <<life, settling, doubted>>

\* The next one takes doubted tasks for tasks that never fired, or doubts more.
Recover ==
  /\ held = {} /\ sent = NoTask
  /\ \/ fired' = fired \ doubted /\ doubted' = {}
     \/ Faults /\ fired' = fired /\ doubted \subseteq doubted'
        /\ \A t \in doubted' \ doubted : t \in Tasks /\ life[t] = "open"
  /\ UNCHANGED <<life, held, sent, settling>>

-----------------------------------------------------------------------------
(* The users.                                                              *)

Open(t) ==
  /\ life[t] = "unborn" /\ life' = [life EXCEPT ![t] = "open"]
  /\ UNCHANGED <<held, sent, settling, fired, doubted>>

\* Postponed or acknowledged, a task is licensed to fire again.
Postpone(t) ==
  /\ life[t] \in {"open", "awaiting"} /\ life' = [life EXCEPT ![t] = "open"]
  /\ fired' = fired \ {t}
  /\ UNCHANGED <<held, sent, settling, doubted>>

Close(S) ==
  /\ \A t \in S : life[t] \in {"open", "awaiting"}
  /\ life' = [t \in Tasks |-> IF t \in S THEN "cancelled" ELSE life[t]]
  /\ UNCHANGED <<held, sent, settling, fired, doubted>>

Claim(c, t) ==
  /\ settling[c] = NoTask /\ life[t] = "awaiting"
  /\ settling' = [settling EXCEPT ![c] = t]
  /\ UNCHANGED <<life, held, sent, fired, doubted>>

\* The acknowledgement ends, whatever the task has become since, or fails.
Settle(c, t) ==
  /\ settling[c] = t
  /\ settling' = [settling EXCEPT ![c] = NoTask]
  /\ \/ t \in CronTasks /\ life' = [life EXCEPT ![t] = "open"] /\ fired' = fired \ {t}
     \/ t \notin CronTasks /\ life' = [life EXCEPT ![t] = "done"] /\ fired' = fired
     \/ Faults /\ UNCHANGED <<life, fired>>
  /\ UNCHANGED <<held, sent, doubted>>

-----------------------------------------------------------------------------
Worker == \/ \E S \in SUBSET Tasks : Take(S)
          \/ \E t \in Tasks : Reopen(t) \/ PutBack(t) \/ Fire(t) \/ LetGo(t)
          \/ Die \/ Recover
Users  == \/ \E t \in Tasks : Open(t) \/ Postpone(t)
          \/ \E S \in SUBSET Tasks : Close(S)
          \/ \E c \in Clients, t \in Tasks : Claim(c, t) \/ Settle(c, t)

Next == Worker \/ Users

Spec == Init /\ [][Next]_vars

=============================================================================
