------------------------------- MODULE Grants -------------------------------
(***************************************************************************)
(* Power grants and the system tasks they bring: power_grant and           *)
(* power_revoke of rogue-iam, several of whose processes may work at once, *)
(* with the scheduler's tick and the users of the tasks meanwhile. A call  *)
(* is a statement on user_powers, then statements on tasks, in another     *)
(* database: each is a step. Schedule has times, the channel and the tasks *)
(* of users; here the rows are those of powers, which run by cron.         *)
(***************************************************************************)
EXTENDS Naturals, Sequences, FiniteSets

CONSTANTS
  Users, Scopes,    \* user ids; channel ids and "", the global scope
  Powers,           \* names of power files
  NameOf,           \* NameOf[p]: the name in the frontmatter of file p
  Schedules,        \* Schedules[p]: how many schedules file p has
  Callers, None,    \* tool calls in progress at a time; no call
  MaxRows, MaxCalls \* bounds of the model: system tasks created, calls made

Grant == [user : Users, scope : Scopes, power : Powers]
Names == Powers \cup {NameOf[p] : p \in Powers}
Call  == [grant : Grant, step : {"cancel", "insert", "remove"}, id : Nat, left : Nat]
Row   == [name : Names, user : Users, scope : Scopes, by : Nat,
          status : {"pending", "running", "awaiting_ack", "cancelled"}]

ConstantsAssumption ==
  /\ Schedules \in [Powers -> Nat] /\ None \notin Call
  /\ MaxRows \in Nat /\ MaxCalls \in Nat

VARIABLES
  grants,   \* the table user_powers
  rows,     \* system tasks, in the order of their creation; by: the call that did
  batch,    \* rows of the tick's query that it has not come to yet
  hand,     \* the row of its iteration in progress; 0 if none
  acking,   \* rows that an Ack has found awaiting and is about to update
  calls,    \* calls[c]: the call in progress, its number, its next statement,
            \* the inserts it has left
  made,     \* calls made so far
  last,     \* history: last[n], the call that last cancelled the tasks of n, or 0
  calm      \* history: names whose last cancellation met nothing in flight, and on
            \* which no other call has begun since, nor a user cancelled a task

tasks == <<rows, batch, hand, acking>>
vars  == <<grants, tasks, calls, made, last, calm>>

TypeOK ==
  /\ grants \subseteq Grant
  /\ rows \in Seq(Row) /\ Len(rows) <= MaxRows
  /\ batch \subseteq 1..Len(rows) /\ hand \in 0..Len(rows)
  /\ acking \subseteq 1..Len(rows)
  /\ calls \in [Callers -> Call \cup {None}]
  /\ made \in 0..MaxCalls
  /\ last \in [Names -> 0..made]
  /\ calm \subseteq Names

Init ==
  /\ grants = {} /\ rows = <<>> /\ batch = {} /\ hand = 0 /\ acking = {}
  /\ calls = [c \in Callers |-> None] /\ made = 0
  /\ last = [n \in Names |-> 0] /\ calm = Names

-----------------------------------------------------------------------------
\* The name a call's statements on tasks are about: a grant takes it from the
\* frontmatter, a revoke from its argument.
NameIn(call) == IF call.step = "remove" THEN call.grant.power ELSE NameOf[call.grant.power]

On(c, n) == calls[c] # None /\ NameIn(calls[c]) = n

\* Somebody is about to update the row r by its id, whatever it is by then.
InFlight(r) == r \in batch \cup acking \/ r = hand

\* What an UPDATE of the pending and awaiting tasks of n, by the call c, may miss: a
\* task in flight, one left running, and what another call has yet to do.
Met(c, n) ==
  \/ \E r \in 1..Len(rows) : rows[r].name = n /\ (InFlight(r) \/ rows[r].status = "running")
  \/ \E d \in Callers \ {c} : On(d, n)

\* A call on n begins.
Begins(c, n, g, step, left) ==
  /\ calls[c] = None /\ made < MaxCalls /\ made' = made + 1
  /\ calls' = [calls EXCEPT ![c] = [grant |-> g, step |-> step, id |-> made', left |-> left]]
  /\ calm' = IF \E d \in Callers : On(d, n) THEN calm \ {n} ELSE calm

\* UPDATE tasks SET status = 'cancelled' WHERE power_name = ? AND system = 1
\* AND status IN ('pending', 'awaiting_ack')
CancelSystem(n) ==
  rows' = [r \in 1..Len(rows) |->
             IF rows[r].name = n /\ rows[r].status \in {"pending", "awaiting_ack"}
             THEN [rows[r] EXCEPT !.status = "cancelled"] ELSE rows[r]]

\* power_grant: the row of user_powers, then the schedules, if the power has any.
GrantInsert(c, g) ==
  /\ calls[c] = None
  /\ grants' = grants \cup {g}
  /\ IF Schedules[g.power] > 0
     THEN Begins(c, NameOf[g.power], g, "cancel", Schedules[g.power])
     ELSE UNCHANGED <<calls, made, calm>>
  /\ UNCHANGED <<tasks, last>>

SyncInsertOnly(c) ==
  /\ calls[c] # None /\ calls[c].step = "cancel"
  /\ calls' = [calls EXCEPT ![c].step = "insert"]
  /\ last' = [last EXCEPT ![NameIn(calls[c])] = calls[c].id]
  /\ UNCHANGED <<grants, tasks, made, calm>>

\* SyncPowerSchedules: the earlier tasks of the power, whoever's they are, with an
\* UPDATE whose error is ignored ...
SyncCancel(c) ==
  LET n == NameIn(calls[c]) IN
  /\ calls[c] # None /\ calls[c].step = "cancel"
  /\ \/ CancelSystem(n) /\ calm' = IF Met(c, n) THEN calm \ {n} ELSE calm \cup {n}
     \/ UNCHANGED rows /\ calm' = calm \ {n}
  /\ last' = [last EXCEPT ![n] = calls[c].id]
  /\ calls' = [calls EXCEPT ![c].step = "insert"]
  /\ UNCHANGED <<grants, batch, hand, acking, made>>

\* One insert is over; the call ends with the last one.
OneLess(c) ==
  LET left == calls[c].left - 1 IN
  calls' = [calls EXCEPT ![c] = IF left = 0 THEN None ELSE [calls[c] EXCEPT !.left = left]]

\* ... and one after the other those for the user it was granted to.
SyncInsert(c) ==
  LET call == calls[c] IN
  /\ call # None /\ call.step = "insert" /\ Len(rows) < MaxRows
  /\ rows' = Append(rows, [name |-> NameIn(call), user |-> call.grant.user,
                           scope |-> call.grant.scope, by |-> call.id, status |-> "pending"])
  /\ OneLess(c)
  /\ UNCHANGED <<grants, batch, hand, acking, made, last, calm>>

\* An insert that fails is logged and passed over.
SyncSkip(c) ==
  /\ calls[c] # None /\ calls[c].step = "insert"
  /\ OneLess(c)
  /\ UNCHANGED <<grants, tasks, made, last, calm>>

\* power_revoke: without a matching row it ends there.
RevokeDelete(c, g) ==
  /\ g \in grants /\ grants' = grants \ {g}
  /\ Begins(c, g.power, g, "remove", 0)
  /\ UNCHANGED <<tasks, last>>

\* RemovePowerSchedules, for every user of the power.
RemovePowerSchedules(c) ==
  LET n == NameIn(calls[c]) IN
  /\ calls[c] # None /\ calls[c].step = "remove"
  /\ CancelSystem(n)
  /\ calm' = IF Met(c, n) THEN calm \ {n} ELSE calm \cup {n}
  /\ last' = [last EXCEPT ![n] = calls[c].id]
  /\ calls' = [calls EXCEPT ![c] = None]
  /\ UNCHANGED <<grants, batch, hand, acking, made>>

\* The schedules' database cannot be opened, the revoke's UPDATE fails, or the
\* process dies: what was there stays.
CallFails(c) ==
  /\ calls[c] # None
  /\ calls' = [calls EXCEPT ![c] = None]
  /\ UNCHANGED <<grants, tasks, made, last, calm>>

-----------------------------------------------------------------------------
(* The tick. Its UPDATEs go by the id, and nobody looks whether they fail. *)

SetStatus(r, s) == rows' = [rows EXCEPT ![r].status = s]

TickUpdate(r, s) == SetStatus(r, s) \/ UNCHANGED rows

\* The query: those of the pending tasks that are due, up to its limit.
TickSelects(due) ==
  /\ hand = 0 /\ batch = {} /\ due # {} /\ \A r \in due : rows[r].status = "pending"
  /\ batch' = due
  /\ UNCHANGED <<grants, rows, hand, acking, calls, made, last, calm>>

\* The next row is marked as running, then sent.
TickMarks(r) ==
  /\ hand = 0 /\ r \in batch
  /\ TickUpdate(r, "running")
  /\ hand' = r /\ batch' = batch \ {r}
  /\ UNCHANGED <<grants, acking, calls, made, last, calm>>

\* After the send: requires_ack, a column that comes from the schedule, decides.
TickEnds ==
  /\ hand # 0
  /\ \E s \in {"awaiting_ack", "pending"} : TickUpdate(hand, s)
  /\ hand' = 0
  /\ UNCHANGED <<grants, batch, acking, calls, made, last, calm>>

\* ctx.Done: the row goes back to pending, the rest of the batch is left.
TickReverts ==
  /\ hand # 0 /\ TickUpdate(hand, "pending")
  /\ hand' = 0 /\ batch' = {}
  /\ UNCHANGED <<grants, acking, calls, made, last, calm>>

\* The pipeline dies, or a row cannot be scanned and is passed over.
TickForgets(kept) ==
  /\ batch' = kept /\ hand' = 0
  /\ UNCHANGED <<grants, rows, acking, calls, made, last, calm>>

RecoverAll ==
  /\ hand = 0 /\ batch = {}
  /\ rows' = [r \in 1..Len(rows) |-> [rows[r] EXCEPT !.status = "pending"]]
  /\ UNCHANGED <<grants, batch, hand, acking, calls, made, last, calm>>

\* The pipeline starts: what was running is pending again. A failure is ignored, and
\* changes nothing.
Recover ==
  /\ hand = 0 /\ batch = {}
  /\ rows' = [r \in 1..Len(rows) |->
                IF rows[r].status = "running" THEN [rows[r] EXCEPT !.status = "pending"]
                ELSE rows[r]]
  /\ UNCHANGED <<grants, batch, hand, acking, calls, made, last, calm>>

-----------------------------------------------------------------------------
(* The users of the tasks, by rogue-scheduler.                             *)

\* Ack: the SELECT and its check ...
AckRead(r) ==
  /\ rows[r].status = "awaiting_ack"
  /\ acking' = acking \cup {r}
  /\ UNCHANGED <<grants, rows, batch, hand, calls, made, last, calm>>

\* ... and the UPDATE by id, if nothing fails before. There may be another Ack of r.
AckWrite(r) ==
  /\ r \in acking /\ acking' \in {acking, acking \ {r}}
  /\ SetStatus(r, "pending") \/ UNCHANGED rows
  /\ UNCHANGED <<grants, batch, hand, calls, made, last, calm>>

Delay(r) ==
  /\ rows[r].status = "awaiting_ack" /\ SetStatus(r, "pending")
  /\ UNCHANGED <<grants, batch, hand, acking, calls, made, last, calm>>

Cancel(r) ==
  /\ rows[r].status \in {"pending", "running"} /\ SetStatus(r, "cancelled")
  /\ calm' = calm \ {rows[r].name}
  /\ UNCHANGED <<grants, batch, hand, acking, calls, made, last>>

-----------------------------------------------------------------------------
ToolStep ==
  \E c \in Callers :
    \/ \E g \in Grant : GrantInsert(c, g) \/ RevokeDelete(c, g)
    \/ SyncCancel(c) \/ SyncInsert(c) \/ SyncSkip(c) \/ RemovePowerSchedules(c)
    \/ CallFails(c)
TickStep ==
  \/ \E due \in SUBSET (1..Len(rows)) : TickSelects(due)
  \/ \E r \in batch : TickMarks(r)
  \/ \E kept \in SUBSET batch : TickForgets(kept)
  \/ TickEnds \/ TickReverts \/ Recover
UserStep == \E r \in 1..Len(rows) : AckRead(r) \/ AckWrite(r) \/ Delay(r) \/ Cancel(r)

Next == ToolStep \/ TickStep \/ UserStep

Spec == Init /\ [][Next]_vars

-----------------------------------------------------------------------------
(* Properties.                                                             *)

LiveRows(n)  == {r \in 1..Len(rows) : rows[r].name = n /\ rows[r].status # "cancelled"}
RowsBy(n, k) == {r \in 1..Len(rows) : rows[r].name = n /\ rows[r].by = k}

\* Once a call on a power has cancelled its tasks while none was in flight, running or
\* another call's, its schedule is what that call has inserted since, all of it and
\* nothing else, whatever came before, and however often those tasks fire, lose an
\* UPDATE, wait for acks or are recovered: until the next call on the power gets as
\* far, meets another one, or a user cancels a task.
LastCallDecides == \A n \in calm : LiveRows(n) = RowsBy(n, last[n])

\* A cancelled task that nobody has in flight, neither the tick in its batch or in its
\* hands nor an Ack that had passed its check, is never selected, acknowledged,
\* recovered or brought back by a write.
Gone(r) == rows[r].status = "cancelled" /\ ~InFlight(r)
CancelledForGood == [][\A r \in 1..Len(rows) : Gone(r) => Gone(r)']_vars

\* What core/types.go says of a power's schedule, "a recurring task that activates
\* when a power is granted": every user it is granted to has it.
GrantedIsScheduled ==
  \A g \in grants : (Schedules[g.power] > 0 /\ \A c \in Callers : calls[c] = None) =>
    \E r \in LiveRows(NameOf[g.power]) : rows[r].user = g.user /\ rows[r].scope = g.scope

=============================================================================
