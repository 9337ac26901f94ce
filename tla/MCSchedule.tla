----------------------------- MODULE MCSchedule -----------------------------
(* Small instances of Schedule for TLC.                                    *)
EXTENDS Schedule

CONSTANTS once, review, digest, news

MCPowerTasks == [p \in Powers |-> {news}]
EveryTwo(n) == ((n \div 2) + 1) * 2

-----------------------------------------------------------------------------
(* Time without end. Only whether a task is due, which of two is due       *)
(* first, and when the next activation is, matter of a time: at MaxTime    *)
(* the clock is set back by a period of EveryTwo, times to come with it,   *)
(* and overdue ones become their rank among them.                          *)
Overdue == ({due[t] : t \in Tasks} \cup {batch[t] : t \in DOMAIN batch}) \cap 0..now
Earlier(d) == IF d > now THEN d - 2 ELSE Cardinality({e \in Overdue : e < d})

Rebase ==
  /\ now = MaxTime /\ now' = now - 2
  /\ due' = [t \in Tasks |-> Earlier(due[t])]
  /\ batch' = [t \in DOMAIN batch |-> Earlier(batch[t])]
  /\ UNCHANGED <<status, proc, tick, cur, inbound, calls, starts, hist>>

EndlessSpec == Init /\ [][Next \/ Rebase]_vars /\ Fairness
=============================================================================
