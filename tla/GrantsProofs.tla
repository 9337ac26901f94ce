---------------------------- MODULE GrantsProofs ----------------------------
(***************************************************************************)
(* What the last call on a power decides, for any users, scopes, powers,   *)
(* tools at work and tasks.                                                *)
(***************************************************************************)
EXTENDS Grants, SequenceTheorems, TLAPS

\* Calls have numbers of their own, and so have their rows, the first of which comes
\* after the cancellation.
RowsNumbered  == \A r \in 1..Len(rows) : rows[r].by \in 1..made
CallsNumbered ==
  \A c \in Callers : calls[c] # None =>
    /\ calls[c].id \in 1..made
    /\ calls[c].step # "insert" => \A r \in 1..Len(rows) : rows[r].by # calls[c].id
    /\ calls[c].step # "remove" => calls[c].left > 0
    /\ \A d \in Callers : calls[d] # None /\ calls[d].id = calls[c].id => c = d

\* On a name that is calm there is one call at a time, and the one that inserts is the
\* one that cancelled.
CallInv ==
  \A n \in calm, c \in Callers : On(c, n) =>
    /\ \A d \in Callers : On(d, n) => c = d
    /\ calls[c].step = "insert" => last[n] = calls[c].id

\* Of a calm name, only live rows are in flight.
FlightInv == \A r \in 1..Len(rows) :
  InFlight(r) /\ rows[r].name \in calm => rows[r].status # "cancelled"

Numbered == RowsNumbered /\ CallsNumbered
IInv == TypeOK /\ Numbered /\ CallInv /\ FlightInv /\ LastCallDecides

-----------------------------------------------------------------------------
\* Rows and calls have their fields.
LEMMA RowFacts ==
  ASSUME TypeOK
  PROVE  /\ Len(rows) \in Nat /\ DOMAIN rows = 1..Len(rows) /\ made \in Nat
         /\ \A r \in 1..Len(rows) :
              /\ rows[r] \in Row
              /\ rows[r].status \in {"pending", "running", "awaiting_ack", "cancelled"}
         /\ hand # 0 => hand \in 1..Len(rows)
<1>1. rows \in Seq(Row) /\ Len(rows) \in Nat /\ DOMAIN rows = 1..Len(rows)
  BY LenProperties DEF TypeOK
<1>2. \A r \in 1..Len(rows) : rows[r] \in Row
  BY <1>1, ElementOfSeq
<1>3. QED
  BY <1>1, <1>2 DEF TypeOK, Row

LEMMA CallFacts ==
  ASSUME TypeOK, NEW c \in Callers, calls[c] # None
  PROVE  /\ calls[c] \in Call /\ calls[c].grant \in Grant /\ calls[c].grant.power \in Powers
         /\ calls[c].step \in {"cancel", "insert", "remove"}
         /\ calls[c].id \in Nat /\ calls[c].left \in Nat
         /\ NameIn(calls[c]) \in Names /\ NameOf[calls[c].grant.power] \in Names
<1>1. calls[c] \in Call
  BY DEF TypeOK
<1>2. /\ calls[c].grant \in Grant /\ calls[c].grant.power \in Powers
      /\ calls[c].step \in {"cancel", "insert", "remove"}
      /\ calls[c].id \in Nat /\ calls[c].left \in Nat
  BY <1>1 DEF Call, Grant
<1>3. QED
  BY <1>1, <1>2 DEF NameIn, Names

\* A table of rows made from another.
LEMMA RowsFunction ==
  ASSUME NEW k \in Nat, NEW f, f \in [1..k -> Row]
  PROVE  f \in Seq(Row) /\ Len(f) = k
BY IsASeq

\* Init satisfies the invariant.
LEMMA InitIInv ==
  ASSUME ConstantsAssumption, Init
  PROVE  IInv
<1> USE DEF Init
<1>1. rows = <<>> /\ Len(rows) = 0 /\ <<>> \in Seq(Row)
  BY EmptySeq
<1>2. TypeOK
  BY <1>1 DEF TypeOK, ConstantsAssumption
<1>3. Numbered /\ CallInv /\ FlightInv
  BY <1>1 DEF Numbered, RowsNumbered, CallsNumbered, CallInv, On, FlightInv
<1>4. LastCallDecides
  BY <1>1 DEF LastCallDecides, LiveRows, RowsBy
<1>5. QED
  BY <1>2, <1>3, <1>4 DEF IInv

-----------------------------------------------------------------------------
(* Steps of the tick and of the tasks' users.                              *)

\* Calls and their numbers stay, the rows of a calm name live and die as before, and
\* only such as live get into flight.
LEMMA TasksKeep ==
  ASSUME IInv, UNCHANGED <<grants, calls, made, last>>, calm' \subseteq calm,
         rows' \in Seq(Row), Len(rows') = Len(rows),
         batch' \subseteq 1..Len(rows), hand' \in 0..Len(rows), acking' \subseteq 1..Len(rows),
         \A r \in 1..Len(rows) :
           /\ rows'[r].name = rows[r].name /\ rows'[r].by = rows[r].by
           /\ rows[r].name \in calm' =>
                (rows'[r].status = "cancelled" <=> rows[r].status = "cancelled")
           /\ r \in batch' \cup acking' \/ r = hand' =>
                InFlight(r) \/ rows[r].status # "cancelled"
  PROVE  IInv'
<1>1. TypeOK'
  BY DEF IInv, TypeOK
<1>2. Numbered'
  BY DEF IInv, Numbered, RowsNumbered, CallsNumbered
<1>3. \A c \in Callers : \A n : On(c, n)' <=> On(c, n)
  BY DEF On, NameIn
<1>4. CallInv'
  BY <1>3 DEF IInv, CallInv
<1>5. FlightInv'
  BY DEF IInv, FlightInv, InFlight
<1>6. \A n \in calm' : LiveRows(n)' = LiveRows(n) /\ RowsBy(n, last[n])' = RowsBy(n, last[n])
  BY DEF LiveRows, RowsBy
<1>7. LastCallDecides'
  BY <1>6 DEF IInv, LastCallDecides
<1>8. QED
  BY <1>1, <1>2, <1>4, <1>5, <1>7 DEF IInv

\* The row r gets another status, or the UPDATE is lost.
LEMMA UpdateFacts ==
  ASSUME TypeOK, NEW r \in 1..Len(rows),
         NEW s \in {"pending", "running", "awaiting_ack", "cancelled"},
         SetStatus(r, s) \/ UNCHANGED rows
  PROVE  /\ rows' \in Seq(Row) /\ Len(rows') = Len(rows)
         /\ rows'[r].status \in {rows[r].status, s}
         /\ \A q \in 1..Len(rows) :
              /\ q # r => rows'[q] = rows[q]
              /\ rows'[q].name = rows[q].name /\ rows'[q].by = rows[q].by
<1>1. CASE UNCHANGED rows
  BY <1>1 DEF TypeOK
<1>2. CASE SetStatus(r, s)
  <2>1. /\ rows' = [rows EXCEPT ![r] = [rows[r] EXCEPT !.status = s]]
        /\ DOMAIN rows = 1..Len(rows) /\ rows \in [1..Len(rows) -> Row] /\ Len(rows) \in Nat
    BY <1>2, RowFacts DEF SetStatus, TypeOK
  <2>2. PICK new : new = [rows[r] EXCEPT !.status = s]
    OBVIOUS
  <2>3. /\ new \in Row /\ new.status = s /\ new.name = rows[r].name /\ new.by = rows[r].by
    BY <2>2, RowFacts DEF Row
  <2>4. /\ rows' \in [1..Len(rows) -> Row] /\ rows'[r] = new
        /\ \A q \in 1..Len(rows) : q # r => rows'[q] = rows[q]
    BY <2>1, <2>2, <2>3
  <2>5. rows' \in Seq(Row) /\ Len(rows') = Len(rows)
    BY <2>1, <2>4, RowsFunction
  <2>6. QED
    BY <2>3, <2>4, <2>5
<1>3. QED
  BY <1>1, <1>2

\* An UPDATE by id that revives no row but one in flight.
LEMMA UpdateKeeps ==
  ASSUME IInv, UNCHANGED <<grants, calls, made, last, calm>>,
         NEW r \in 1..Len(rows), NEW s \in {"pending", "running", "awaiting_ack"},
         SetStatus(r, s) \/ UNCHANGED rows,
         InFlight(r) \/ rows[r].status # "cancelled",
         batch' \subseteq 1..Len(rows), hand' \in 0..Len(rows), acking' \subseteq 1..Len(rows),
         \A q \in 1..Len(rows) :
           q \in batch' \cup acking' \/ q = hand' => InFlight(q) \/ rows[q].status # "cancelled"
  PROVE  IInv'
<1>1. /\ rows' \in Seq(Row) /\ Len(rows') = Len(rows)
      /\ rows'[r].status \in {rows[r].status, s}
      /\ \A q \in 1..Len(rows) :
           /\ q # r => rows'[q] = rows[q]
           /\ rows'[q].name = rows[q].name /\ rows'[q].by = rows[q].by
  BY UpdateFacts DEF IInv
<1>2. rows[r].name \in calm => rows[r].status # "cancelled"
  BY DEF IInv, FlightInv
<1>3. \A q \in 1..Len(rows) : rows[q].name \in calm' =>
        (rows'[q].status = "cancelled" <=> rows[q].status = "cancelled")
  BY <1>1, <1>2
<1>4. calm' \subseteq calm
  OBVIOUS
<1>5. QED
  BY <1>1, <1>3, <1>4, TasksKeep

\* The tick.
LEMMA TickStepKeeps ==
  ASSUME IInv, TickStep
  PROVE  IInv'
<1>0. /\ batch \subseteq 1..Len(rows) /\ acking \subseteq 1..Len(rows) /\ hand \in 0..Len(rows)
      /\ 0 \in 0..Len(rows) /\ 0 \notin 1..Len(rows) /\ 1..Len(rows) \subseteq 0..Len(rows)
      /\ rows \in Seq(Row)
  BY RowFacts DEF IInv, TypeOK
<1>1. ASSUME NEW due \in SUBSET (1..Len(rows)), TickSelects(due) PROVE IInv'
  <2>1. /\ batch' = due /\ UNCHANGED <<grants, rows, hand, acking, calls, made, last, calm>>
        /\ \A r \in due : rows[r].status = "pending"
    BY <1>1 DEF TickSelects
  <2>2. QED
    BY <1>0, <2>1, TasksKeep DEF InFlight
<1>2. ASSUME NEW r \in batch, TickMarks(r) PROVE IInv'
  <2>1. /\ SetStatus(r, "running") \/ UNCHANGED rows
        /\ hand' = r /\ batch' = batch \ {r}
        /\ UNCHANGED <<grants, acking, calls, made, last, calm>>
    BY <1>2 DEF TickMarks, TickUpdate
  <2>2. r \in 1..Len(rows) /\ InFlight(r)
    BY <1>0 DEF InFlight
  <2>3. \A q \in 1..Len(rows) : q \in batch' \cup acking' \/ q = hand' => InFlight(q)
    BY <2>1, <2>2 DEF InFlight
  <2>4. QED
    BY <1>0, <2>1, <2>2, <2>3, UpdateKeeps
<1>3. CASE TickEnds
  <2>1. PICK s \in {"awaiting_ack", "pending"} : SetStatus(hand, s) \/ UNCHANGED rows
    BY <1>3 DEF TickEnds, TickUpdate
  <2>2. /\ hand \in 1..Len(rows) /\ InFlight(hand) /\ hand' = 0
        /\ UNCHANGED <<grants, batch, acking, calls, made, last, calm>>
    BY <1>0, <1>3 DEF TickEnds, InFlight
  <2>3. \A q \in 1..Len(rows) : q \in batch' \cup acking' \/ q = hand' => InFlight(q)
    BY <1>0, <2>2 DEF InFlight
  <2>4. QED
    BY <1>0, <2>1, <2>2, <2>3, UpdateKeeps
<1>4. CASE TickReverts
  <2>1. SetStatus(hand, "pending") \/ UNCHANGED rows
    BY <1>4 DEF TickReverts, TickUpdate
  <2>2. /\ hand \in 1..Len(rows) /\ InFlight(hand) /\ hand' = 0 /\ batch' = {}
        /\ UNCHANGED <<grants, acking, calls, made, last, calm>>
    BY <1>0, <1>4 DEF TickReverts, InFlight
  <2>3. \A q \in 1..Len(rows) : q \in batch' \cup acking' \/ q = hand' => InFlight(q)
    BY <1>0, <2>2 DEF InFlight
  <2>4. QED
    BY <1>0, <2>1, <2>2, <2>3, UpdateKeeps
<1>5. ASSUME NEW kept \in SUBSET batch, TickForgets(kept) PROVE IInv'
  <2>1. /\ batch' = kept /\ hand' = 0
        /\ UNCHANGED <<grants, rows, acking, calls, made, last, calm>>
    BY <1>5 DEF TickForgets
  <2>2. QED
    BY <1>0, <2>1, TasksKeep DEF InFlight
<1>6. CASE Recover
  <2>1. /\ UNCHANGED <<grants, batch, hand, acking, calls, made, last, calm>>
        /\ rows' = [r \in 1..Len(rows) |->
                      IF rows[r].status = "running" THEN [rows[r] EXCEPT !.status = "pending"]
                      ELSE rows[r]]
    BY <1>6 DEF Recover
  <2>2. ASSUME NEW r \in 1..Len(rows)
        PROVE  /\ rows'[r] \in Row /\ rows'[r].name = rows[r].name /\ rows'[r].by = rows[r].by
               /\ rows'[r].status = "cancelled" <=> rows[r].status = "cancelled"
    <3>1. rows[r] \in Row
      BY RowFacts DEF IInv
    <3>2. CASE rows[r].status = "running"
      <4>1. rows'[r] = [rows[r] EXCEPT !.status = "pending"]
        BY <2>1, <3>2
      <4>2. QED
        BY <3>1, <3>2, <4>1 DEF Row
    <3>3. CASE rows[r].status # "running"
      BY <2>1, <3>1, <3>3
    <3>4. QED
      BY <3>2, <3>3
  <2>3. rows' \in Seq(Row) /\ Len(rows') = Len(rows)
    <3>1. rows' \in [1..Len(rows) -> Row]
      BY <2>1, <2>2
    <3>2. QED
      BY <3>1, RowFacts, RowsFunction DEF IInv
  <2>4. QED
    BY <1>0, <2>1, <2>2, <2>3, TasksKeep DEF InFlight
<1>7. QED
  BY <1>1, <1>2, <1>3, <1>4, <1>5, <1>6 DEF TickStep

\* The users of the tasks.
LEMMA UserStepKeeps ==
  ASSUME IInv, UserStep
  PROVE  IInv'
<1>0. /\ batch \subseteq 1..Len(rows) /\ acking \subseteq 1..Len(rows) /\ hand \in 0..Len(rows)
      /\ rows \in Seq(Row)
  BY DEF IInv, TypeOK
<1>1. PICK r \in 1..Len(rows) : AckRead(r) \/ AckWrite(r) \/ Delay(r) \/ Cancel(r)
  BY DEF UserStep
<1>2. CASE AckRead(r)
  <2>1. /\ rows[r].status = "awaiting_ack" /\ acking' = acking \cup {r}
        /\ UNCHANGED <<grants, rows, batch, hand, calls, made, last, calm>>
    BY <1>2 DEF AckRead
  <2>2. QED
    BY <1>0, <2>1, TasksKeep DEF InFlight
<1>3. CASE AckWrite(r)
  <2>1. /\ r \in acking /\ acking' \in {acking, acking \ {r}}
        /\ SetStatus(r, "pending") \/ UNCHANGED rows
        /\ UNCHANGED <<grants, batch, hand, calls, made, last, calm>>
    BY <1>3 DEF AckWrite
  <2>2. acking' \subseteq acking /\ InFlight(r)
    BY <2>1 DEF InFlight
  <2>3. \A q \in 1..Len(rows) : q \in batch' \cup acking' \/ q = hand' => InFlight(q)
    BY <2>1, <2>2 DEF InFlight
  <2>4. QED
    BY <1>0, <2>1, <2>2, <2>3, UpdateKeeps
<1>4. CASE Delay(r)
  <2>1. /\ rows[r].status = "awaiting_ack" /\ SetStatus(r, "pending")
        /\ UNCHANGED <<grants, batch, hand, acking, calls, made, last, calm>>
    BY <1>4 DEF Delay
  <2>2. QED
    BY <1>0, <2>1, UpdateKeeps DEF InFlight
<1>5. CASE Cancel(r)
  <2>1. /\ SetStatus(r, "cancelled") /\ calm' = calm \ {rows[r].name}
        /\ UNCHANGED <<grants, batch, hand, acking, calls, made, last>>
    BY <1>5 DEF Cancel
  <2>2. /\ rows' \in Seq(Row) /\ Len(rows') = Len(rows)
        /\ \A q \in 1..Len(rows) :
             /\ q # r => rows'[q] = rows[q]
             /\ rows'[q].name = rows[q].name /\ rows'[q].by = rows[q].by
    BY <2>1, UpdateFacts DEF IInv
  <2>3. \A q \in 1..Len(rows) : rows[q].name \in calm' => rows'[q] = rows[q]
    BY <2>1, <2>2
  <2>4. calm' \subseteq calm
    BY <2>1
  <2>5. QED
    BY <1>0, <2>1, <2>2, <2>3, <2>4, TasksKeep DEF InFlight
<1>6. QED
  BY <1>1, <1>2, <1>3, <1>4, <1>5

-----------------------------------------------------------------------------
(* Steps of power_grant and power_revoke.                                  *)

\* A step of the call c, on the name k: x is what is left of it. Rows keep their names
\* and numbers, new ones have those of c. The other names see nothing of it; of k it is
\* to be shown that its live rows are those of the last call.
Continues(c, k, x) ==
  /\ calls' = [calls EXCEPT ![c] = x]
  /\ \A n : n # k => ~On(c, n)
  /\ x # None =>
       /\ NameIn(x) = k /\ x.id \in 1..made'
       /\ x.step # "remove" => x.left > 0
       /\ x.step # "insert" => \A r \in 1..Len(rows') : rows'[r].by # x.id
       /\ \A d \in Callers : calls[d] # None /\ calls[d].id = x.id => c = d
OwnRows(c, k) ==
  /\ Len(rows) <= Len(rows')
  /\ \A r \in 1..Len(rows) : rows'[r].by = rows[r].by /\ rows'[r].name = rows[r].name
  /\ \A r \in 1..Len(rows') : r > Len(rows) =>
       calls[c] # None /\ rows'[r].by = calls[c].id /\ rows'[r].name = k
OtherNames(k) ==
  \A n \in calm' : n # k => n \in calm /\ last'[n] = last[n] /\ LiveRows(n)' = LiveRows(n)
OwnName(c, k, x) ==
  k \in calm' =>
    /\ \A d \in Callers : On(d, k) => d = c
    /\ LiveRows(k)' = RowsBy(k, last[k])'
    /\ x # None /\ x.step = "insert" => last'[k] = x.id

LEMMA CallKeeps ==
  ASSUME IInv, TypeOK', FlightInv', NEW c \in Callers, NEW k, NEW x, made <= made',
         Continues(c, k, x), OwnRows(c, k), OtherNames(k), OwnName(c, k, x)
  PROVE  IInv'
<1> USE DEF Continues, OwnRows, OtherNames, OwnName
<1>1. calls'[c] = x /\ \A d \in Callers : d # c => calls'[d] = calls[d]
  BY DEF IInv, TypeOK
<1>2. /\ \A d \in Callers : \A n : d # c => (On(d, n)' <=> On(d, n))
      /\ \A n : On(c, n)' => x # None /\ n = k
  BY <1>1 DEF On, NameIn
<1>3. made \in Nat /\ made' \in Nat /\ made <= made' /\ Len(rows) \in Nat /\ Len(rows') \in Nat
  <2>1. made \in Nat /\ Len(rows) \in Nat
    BY RowFacts DEF IInv
  <2>2. Len(rows') \in Nat
    BY LenProperties DEF TypeOK
  <2>3. made' \in Nat
    BY DEF TypeOK
  <2>4. QED
    BY <2>1, <2>2, <2>3
<1>4. Numbered'
  <2>1. RowsNumbered'
    <3>1. ASSUME NEW r \in 1..Len(rows') PROVE rows'[r].by \in 1..made'
      <4>1. CASE r \in 1..Len(rows)
        <5>1. rows'[r].by = rows[r].by /\ rows[r].by \in 1..made
          BY <4>1 DEF IInv, Numbered, RowsNumbered
        <5>2. QED
          BY <1>3, <5>1
      <4>2. CASE r \notin 1..Len(rows)
        <5>1. r > Len(rows)
          BY <1>3, <4>2
        <5>2. rows'[r].by = calls[c].id /\ calls[c].id \in 1..made
          BY <5>1 DEF IInv, Numbered, CallsNumbered
        <5>3. QED
          BY <1>3, <5>2
      <4>3. QED
        BY <4>1, <4>2
    <3>2. QED
      BY <3>1 DEF RowsNumbered
  <2>2. ASSUME NEW b \in Callers, calls'[b] # None
        PROVE  /\ calls'[b].id \in 1..made'
               /\ calls'[b].step # "insert" => \A r \in 1..Len(rows') : rows'[r].by # calls'[b].id
               /\ calls'[b].step # "remove" => calls'[b].left > 0
               /\ \A d \in Callers : calls'[d] # None /\ calls'[d].id = calls'[b].id => b = d
    <3>1. CASE b = c
      <4>1. calls'[b] = x /\ x # None
        BY <1>1, <2>2, <3>1
      <4>2. QED
        BY <1>1, <3>1, <4>1
    <3>2. CASE b # c
      <4>1. calls'[b] = calls[b] /\ calls[b] # None
        BY <1>1, <2>2, <3>2
      <4>2. /\ calls[b].id \in 1..made
            /\ calls[b].step # "insert" => \A r \in 1..Len(rows) : rows[r].by # calls[b].id
            /\ calls[b].step # "remove" => calls[b].left > 0
            /\ \A d \in Callers : calls[d] # None /\ calls[d].id = calls[b].id => b = d
        BY <4>1 DEF IInv, Numbered, CallsNumbered
      <4>3. \A d \in Callers : calls'[d] # None /\ calls'[d].id = calls[b].id => b = d
        BY <1>1, <3>2, <4>1, <4>2
      <4>4. ASSUME calls[b].step # "insert", NEW r \in 1..Len(rows')
            PROVE  rows'[r].by # calls[b].id
        <5>1. CASE r \in 1..Len(rows)
          BY <4>2, <4>4, <5>1
        <5>2. CASE r \notin 1..Len(rows)
          <6>1. r > Len(rows)
            BY <1>3, <5>2
          <6>2. calls[c] # None /\ rows'[r].by = calls[c].id
            BY <6>1
          <6>3. QED
            BY <3>2, <4>2, <6>2
        <5>3. QED
          BY <5>1, <5>2
      <4>5. calls[b].id \in 1..made'
        BY <1>3, <4>2
      <4>6. QED
        BY <4>1, <4>2, <4>3, <4>4, <4>5
    <3>3. QED
      BY <3>1, <3>2
  <2>3. QED
    BY <2>1, <2>2 DEF Numbered, CallsNumbered
<1>5. CallInv'
  <2>1. ASSUME NEW n \in calm', NEW b \in Callers, On(b, n)'
        PROVE  /\ \A d \in Callers : On(d, n)' => b = d
               /\ calls'[b].step = "insert" => last'[n] = calls'[b].id
    <3>1. CASE n = k
      <4>1. /\ \A d \in Callers : On(d, k) => d = c
            /\ x # None /\ x.step = "insert" => last'[k] = x.id
        BY <3>1
      <4>2. \A d \in Callers : On(d, n)' => d = c
        BY <1>2, <3>1, <4>1
      <4>3. b = c /\ x # None /\ calls'[b] = x
        BY <1>1, <1>2, <2>1, <4>2
      <4>4. QED
        BY <3>1, <4>1, <4>2, <4>3
    <3>2. CASE n # k
      <4>1. \A d \in Callers : On(d, n)' => d # c /\ On(d, n) /\ calls'[d] = calls[d]
        BY <1>1, <1>2, <3>2
      <4>2. n \in calm /\ last'[n] = last[n]
        BY <3>2
      <4>3. /\ \A d \in Callers : On(d, n) => b = d
            /\ calls[b].step = "insert" => last[n] = calls[b].id
        BY <2>1, <4>1, <4>2 DEF IInv, CallInv
      <4>4. QED
        BY <2>1, <4>1, <4>2, <4>3
    <3>3. QED
      BY <3>1, <3>2
  <2>2. QED
    BY <2>1 DEF CallInv
<1>6. LastCallDecides'
  <2>1. ASSUME NEW n \in calm' PROVE LiveRows(n)' = RowsBy(n, last[n])'
    <3>1. CASE n = k
      BY <3>1
    <3>2. CASE n # k
      <4>1. LiveRows(n)' = RowsBy(n, last[n]) /\ last'[n] = last[n]
        BY <3>2 DEF IInv, LastCallDecides
      <4>2. RowsBy(n, last[n])' = RowsBy(n, last[n])
        <5>1. \A r \in 1..Len(rows') : r \notin 1..Len(rows) => rows'[r].name = k
          BY <1>3
        <5>2. 1..Len(rows) \subseteq 1..Len(rows')
          BY <1>3
        <5>3. QED
          BY <3>2, <4>1, <5>1, <5>2 DEF RowsBy
      <4>3. QED
        BY <4>1, <4>2
    <3>3. QED
      BY <3>1, <3>2
  <2>2. QED
    BY <2>1 DEF LastCallDecides
<1>7. QED
  BY <1>4, <1>5, <1>6 DEF IInv

\* What CancelSystem leaves of the rows of n: those that run.
LEMMA CancelFacts ==
  ASSUME TypeOK, NEW n, CancelSystem(n)
  PROVE  /\ rows' \in Seq(Row) /\ Len(rows') = Len(rows)
         /\ \A r \in 1..Len(rows) :
              /\ rows[r].name # n => rows'[r] = rows[r]
              /\ rows'[r].name = rows[r].name /\ rows'[r].by = rows[r].by
              /\ rows'[r].status \in {rows[r].status, "cancelled"}
              /\ rows[r].name = n => rows'[r].status \in {"running", "cancelled"}
         /\ \A m : m # n => LiveRows(m)' = LiveRows(m)
<1>1. ASSUME NEW r \in 1..Len(rows)
      PROVE  /\ rows'[r] \in Row
             /\ rows[r].name # n => rows'[r] = rows[r]
             /\ rows'[r].name = rows[r].name /\ rows'[r].by = rows[r].by
             /\ rows'[r].status \in {rows[r].status, "cancelled"}
             /\ rows[r].name = n => rows'[r].status \in {"running", "cancelled"}
  <2>1. rows[r] \in Row /\ rows[r].status \in {"pending", "running", "awaiting_ack", "cancelled"}
    BY RowFacts
  <2>2. CASE rows[r].name = n /\ rows[r].status \in {"pending", "awaiting_ack"}
    <3>1. rows'[r] = [rows[r] EXCEPT !.status = "cancelled"]
      BY <2>2 DEF CancelSystem
    <3>2. QED
      BY <2>1, <2>2, <3>1 DEF Row
  <2>3. CASE ~(rows[r].name = n /\ rows[r].status \in {"pending", "awaiting_ack"})
    <3>1. rows'[r] = rows[r]
      BY <2>3 DEF CancelSystem
    <3>2. QED
      BY <2>1, <2>3, <3>1
  <2>4. QED
    BY <2>2, <2>3
<1>2. rows' \in Seq(Row) /\ Len(rows') = Len(rows)
  <2>1. rows' \in [1..Len(rows) -> Row]
    BY <1>1 DEF CancelSystem
  <2>2. QED
    BY <2>1, RowFacts, RowsFunction
<1>3. \A m : m # n => LiveRows(m)' = LiveRows(m)
  BY <1>1, <1>2 DEF LiveRows
<1>4. QED
  BY <1>1, <1>2, <1>3

\* The UPDATE that cancels, done or failed, by the call c on k that goes on as x. If it
\* meets nothing it leaves nothing alive, and k is calm.
LEMMA CancelKeeps ==
  ASSUME ConstantsAssumption, IInv, NEW c \in Callers, calls[c] # None, calls[c].step # "insert",
         NEW k, k = NameIn(calls[c]), NEW x,
         \/ CancelSystem(k) /\ calm' = IF Met(c, k) THEN calm \ {k} ELSE calm \cup {k}
         \/ UNCHANGED rows /\ calm' = calm \ {k},
         last' = [last EXCEPT ![k] = calls[c].id], calls' = [calls EXCEPT ![c] = x],
         UNCHANGED <<grants, batch, hand, acking, made>>,
         x # None => /\ x \in Call /\ NameIn(x) = k /\ x.id = calls[c].id
                     /\ x.step = "insert" /\ x.left > 0
  PROVE  IInv'
<1>1. /\ k \in Names /\ calls[c].id \in 1..made /\ made \in Nat /\ Len(rows) \in Nat
      /\ \A r \in 1..Len(rows) : rows[r].by # calls[c].id
      /\ \A d \in Callers : calls[d] # None /\ calls[d].id = calls[c].id => c = d
  BY CallFacts, RowFacts DEF IInv, Numbered, CallsNumbered
<1>2. /\ rows' \in Seq(Row) /\ Len(rows') = Len(rows)
      /\ \A r \in 1..Len(rows) :
           /\ rows[r].name # k => rows'[r] = rows[r]
           /\ rows'[r].name = rows[r].name /\ rows'[r].by = rows[r].by
      /\ \A m : m # k => LiveRows(m)' = LiveRows(m)
  <2>1. CASE CancelSystem(k)
    BY <2>1, CancelFacts DEF IInv
  <2>2. CASE UNCHANGED rows
    BY <2>2 DEF IInv, TypeOK, LiveRows
  <2>3. QED
    BY <2>1, <2>2
<1>3. last'[k] = calls[c].id /\ \A n : n # k => last'[n] = last[n]
  BY <1>1 DEF IInv, TypeOK
<1>4. ASSUME k \in calm'
      PROVE  ~Met(c, k) /\ LiveRows(k)' = {} /\ RowsBy(k, last[k])' = {}
  <2>1. CancelSystem(k) /\ ~Met(c, k)
    BY <1>4
  <2>2. \A r \in 1..Len(rows) : rows[r].name = k => rows[r].status # "running"
    BY <2>1 DEF Met
  <2>3. \A r \in 1..Len(rows) : rows[r].name = k => rows'[r].status = "cancelled"
    BY <2>1, <2>2, CancelFacts DEF IInv
  <2>4. QED
    BY <1>1, <1>2, <1>3, <2>1, <2>3 DEF LiveRows, RowsBy
<1>5. TypeOK'
  <2>1. last' \in [Names -> 0..made]
    BY <1>1 DEF IInv, TypeOK
  <2>2. calm' \subseteq Names
    BY <1>1 DEF IInv, TypeOK
  <2>3. QED
    BY <1>1, <1>2, <2>1, <2>2 DEF IInv, TypeOK
<1>6. FlightInv'
  <2>1. ASSUME NEW r \in 1..Len(rows'), InFlight(r)', rows'[r].name \in calm'
        PROVE  rows'[r].status # "cancelled"
    <3>1. r \in 1..Len(rows) /\ InFlight(r) /\ rows[r].name \in calm'
      BY <1>2, <2>1 DEF InFlight
    <3>2. rows[r].name # k
      BY <1>4, <3>1 DEF Met
    <3>3. rows[r].name \in calm /\ rows'[r] = rows[r]
      BY <1>2, <3>1, <3>2
    <3>4. QED
      BY <3>1, <3>3 DEF IInv, FlightInv
  <2>2. QED
    BY <2>1 DEF FlightInv
<1>7. k \in calm' => \A d \in Callers : On(d, k) => d = c
  BY <1>4 DEF Met
<1>8. \A n \in calm' : n # k =>
        n \in calm /\ last'[n] = last[n] /\ LiveRows(n)' = LiveRows(n)
  BY <1>2, <1>3
<1>9. \A n : n # k => ~On(c, n)
  BY DEF On
<1>10. Continues(c, k, x)
  BY <1>1, <1>9 DEF Continues
<1>11. OwnRows(c, k)
  <2>1. Len(rows) <= Len(rows') /\ \A r \in 1..Len(rows') : ~(r > Len(rows))
    BY <1>1, <1>2
  <2>2. QED
    BY <1>2, <2>1 DEF OwnRows
<1>12. OtherNames(k) /\ OwnName(c, k, x)
  BY <1>3, <1>4, <1>7, <1>8 DEF OtherNames, OwnName
<1>13. made <= made'
  BY <1>1
<1>14. QED
  BY <1>5, <1>6, <1>10, <1>11, <1>12, <1>13, CallKeeps

\* A call begins: power_grant or power_revoke, with a number of its own.
LEMMA BeginsKeeps ==
  ASSUME ConstantsAssumption, IInv, NEW c \in Callers, NEW k, NEW x \in Call,
         UNCHANGED <<tasks, last>>, grants' \subseteq Grant,
         calls[c] = None, calls' = [calls EXCEPT ![c] = x], made < MaxCalls, made' = made + 1,
         calm' = IF \E d \in Callers : On(d, k) THEN calm \ {k} ELSE calm,
         NameIn(x) = k, x.id = made + 1, x.step # "insert", x.step # "remove" => x.left > 0
  PROVE  IInv'
<1>1. /\ made \in Nat /\ made' \in 0..MaxCalls /\ made + 1 \in 1..made' /\ made <= made'
      /\ 0..made \subseteq 0..made' /\ UNCHANGED <<rows, batch, hand, acking>>
  BY RowFacts DEF IInv, TypeOK, ConstantsAssumption, tasks
<1>2. TypeOK'
  <2>1. last' \in [Names -> 0..made']
    BY <1>1 DEF IInv, TypeOK
  <2>2. QED
    BY <1>1, <2>1 DEF IInv, TypeOK
<1>3. FlightInv'
  BY <1>1 DEF IInv, FlightInv, InFlight
<1>4. /\ \A r \in 1..Len(rows') : rows'[r].by # x.id
      /\ \A d \in Callers : ~(calls[d] # None /\ calls[d].id = x.id)
  <2>1. \A r \in 1..Len(rows') : rows'[r].by \in 1..made
    BY <1>1 DEF IInv, Numbered, RowsNumbered
  <2>2. \A d \in Callers : calls[d] # None => calls[d].id \in 1..made
    BY DEF IInv, Numbered, CallsNumbered
  <2>3. \A i \in 1..made : i # made + 1
    BY <1>1
  <2>4. QED
    BY <2>1, <2>2, <2>3
<1>5. Continues(c, k, x)
  BY <1>1, <1>4 DEF Continues, On
<1>6. OwnRows(c, k)
  <2>1. Len(rows) \in Nat
    BY RowFacts DEF IInv
  <2>2. Len(rows) <= Len(rows') /\ \A r \in 1..Len(rows') : ~(r > Len(rows))
    BY <1>1, <2>1
  <2>3. QED
    BY <1>1, <2>2 DEF OwnRows
<1>7. \A n : LiveRows(n)' = LiveRows(n) /\ RowsBy(n, last[n])' = RowsBy(n, last[n])
  BY <1>1 DEF LiveRows, RowsBy
<1>8. OtherNames(k)
  BY <1>7 DEF OtherNames
<1>9. OwnName(c, k, x)
  BY <1>7 DEF OwnName, IInv, LastCallDecides
<1>10. QED
  BY <1>1, <1>2, <1>3, <1>5, <1>6, <1>8, <1>9, CallKeeps

LEMMA CallBegins ==
  ASSUME ConstantsAssumption, IInv, NEW c \in Callers, NEW g \in Grant,
         GrantInsert(c, g) \/ RevokeDelete(c, g)
  PROVE  IInv'
<1>1. /\ g.power \in Powers /\ UNCHANGED <<tasks, last>> /\ calls[c] = None
      /\ grants' \subseteq Grant /\ made + 1 \in Nat
  BY RowFacts DEF GrantInsert, RevokeDelete, Begins, IInv, TypeOK, Grant
<1>2. CASE GrantInsert(c, g) /\ ~(Schedules[g.power] > 0)
  <2>1. UNCHANGED <<rows, batch, hand, acking, calls, made, last, calm>>
    BY <1>1, <1>2 DEF GrantInsert, tasks
  <2>2. TypeOK'
    BY <1>1, <2>1 DEF IInv, TypeOK
  <2>3. Numbered' /\ CallInv' /\ FlightInv' /\ LastCallDecides'
    BY <2>1 DEF IInv, Numbered, RowsNumbered, CallsNumbered, CallInv, On, NameIn, FlightInv,
                InFlight, LastCallDecides, LiveRows, RowsBy
  <2>4. QED
    BY <2>2, <2>3 DEF IInv
<1>3. CASE GrantInsert(c, g) /\ Schedules[g.power] > 0
  <2>1. PICK x : x = [grant |-> g, step |-> "cancel", id |-> made + 1, left |-> Schedules[g.power]]
    OBVIOUS
  <2>2. Begins(c, NameOf[g.power], g, "cancel", Schedules[g.power])
    BY <1>3 DEF GrantInsert
  <2>3. /\ x \in Call /\ x.step = "cancel" /\ x.left > 0 /\ x.id = made + 1
        /\ NameIn(x) = NameOf[g.power]
    BY <1>1, <1>3, <2>1 DEF Call, NameIn, ConstantsAssumption
  <2>4. calls' = [calls EXCEPT ![c] = x] /\ made < MaxCalls /\ made' = made + 1
    BY <2>1, <2>2 DEF Begins
  <2>5. calm' = IF \E d \in Callers : On(d, NameOf[g.power])
                THEN calm \ {NameOf[g.power]} ELSE calm
    BY <2>2 DEF Begins
  <2>6. QED
    BY <1>1, <2>3, <2>4, <2>5, BeginsKeeps
<1>4. CASE RevokeDelete(c, g)
  <2>1. PICK x : x = [grant |-> g, step |-> "remove", id |-> made + 1, left |-> 0]
    OBVIOUS
  <2>2. Begins(c, g.power, g, "remove", 0)
    BY <1>4 DEF RevokeDelete
  <2>3. x \in Call /\ x.step = "remove" /\ x.id = made + 1 /\ NameIn(x) = g.power
    BY <1>1, <2>1 DEF Call, NameIn
  <2>4. calls' = [calls EXCEPT ![c] = x] /\ made < MaxCalls /\ made' = made + 1
    BY <2>1, <2>2 DEF Begins
  <2>5. calm' = IF \E d \in Callers : On(d, g.power) THEN calm \ {g.power} ELSE calm
    BY <2>2 DEF Begins
  <2>6. QED
    BY <1>1, <2>3, <2>4, <2>5, BeginsKeeps
<1>5. QED
  BY <1>2, <1>3, <1>4

\* The cancellation of a grant's call, which goes on with its inserts.
LEMMA SyncCancelKeeps ==
  ASSUME ConstantsAssumption, IInv, NEW c \in Callers, SyncCancel(c)
  PROVE  IInv'
<1>1. PICK k, x : k = NameIn(calls[c]) /\ x = [calls[c] EXCEPT !.step = "insert"]
  OBVIOUS
<1>2. /\ calls[c] # None /\ calls[c].step = "cancel"
      /\ \/ CancelSystem(k) /\ calm' = IF Met(c, k) THEN calm \ {k} ELSE calm \cup {k}
         \/ UNCHANGED rows /\ calm' = calm \ {k}
      /\ last' = [last EXCEPT ![k] = calls[c].id] /\ calls' = [calls EXCEPT ![c] = x]
      /\ UNCHANGED <<grants, batch, hand, acking, made>>
  BY <1>1 DEF SyncCancel
<1>3. calls[c] \in Call /\ calls[c].left > 0
  BY <1>2, CallFacts DEF IInv, Numbered, CallsNumbered
<1>4. /\ x \in Call /\ x.id = calls[c].id /\ x.step = "insert" /\ x.left > 0
      /\ x.grant = calls[c].grant
  BY <1>1, <1>3 DEF Call
<1>5. NameIn(x) = k
  BY <1>1, <1>2, <1>4 DEF NameIn
<1>6. calls[c].step # "insert" /\ k = NameIn(calls[c])
  BY <1>1, <1>2
<1>7. QED
  BY <1>2, <1>4, <1>5, <1>6, CancelKeeps

\* The cancellation of a revoke, with which it is over.
LEMMA RevokeKeeps ==
  ASSUME ConstantsAssumption, IInv, NEW c \in Callers, RemovePowerSchedules(c)
  PROVE  IInv'
<1>1. PICK k : k = NameIn(calls[c])
  OBVIOUS
<1>2. /\ calls[c] # None /\ calls[c].step # "insert" /\ CancelSystem(k)
      /\ calm' = IF Met(c, k) THEN calm \ {k} ELSE calm \cup {k}
      /\ last' = [last EXCEPT ![k] = calls[c].id] /\ calls' = [calls EXCEPT ![c] = None]
      /\ UNCHANGED <<grants, batch, hand, acking, made>>
  BY <1>1 DEF RemovePowerSchedules
<1>3. QED
  BY <1>1, <1>2, CancelKeeps

\* What is left of a call after an insert.
LEMMA OneLessFacts ==
  ASSUME ConstantsAssumption, IInv, NEW c \in Callers,
         calls[c] # None, calls[c].step = "insert", OneLess(c), UNCHANGED made
  PROVE  \E x \in Call \cup {None} :
           /\ calls' = [calls EXCEPT ![c] = x] /\ Continues(c, NameIn(calls[c]), x)
           /\ x # None => x.id = calls[c].id /\ x.step = "insert"
<1>1. PICK k : k = NameIn(calls[c])
  OBVIOUS
<1>2. /\ calls[c] \in Call /\ calls[c].left \in Nat /\ calls[c].left > 0
      /\ calls[c].id \in 1..made
      /\ \A d \in Callers : calls[d] # None /\ calls[d].id = calls[c].id => c = d
  BY CallFacts DEF IInv, Numbered, CallsNumbered
<1>3. \A n : n # k => ~On(c, n)
  BY <1>1 DEF On
<1>4. CASE calls[c].left = 1
  <2>1. calls' = [calls EXCEPT ![c] = None]
    BY <1>4 DEF OneLess, IInv, TypeOK
  <2>2. Continues(c, k, None)
    BY <1>3, <2>1 DEF Continues
  <2>3. QED
    BY <1>1, <2>1, <2>2
<1>5. CASE calls[c].left # 1
  <2>1. PICK x : x = [calls[c] EXCEPT !.left = calls[c].left - 1]
    OBVIOUS
  <2>2. calls' = [calls EXCEPT ![c] = x]
    BY <1>5, <2>1 DEF OneLess, IInv, TypeOK
  <2>3. calls[c].left - 1 \in Nat /\ calls[c].left - 1 > 0
    BY <1>2, <1>5
  <2>4. /\ x \in Call /\ x.id = calls[c].id /\ x.left > 0 /\ x.step = "insert"
        /\ x.grant = calls[c].grant
    BY <1>2, <2>1, <2>3 DEF Call
  <2>5. NameIn(x) = k
    BY <1>1, <2>4 DEF NameIn
  <2>6. Continues(c, k, x)
    BY <1>2, <1>3, <2>2, <2>4, <2>5 DEF Continues
  <2>7. QED
    BY <1>1, <2>2, <2>4, <2>6
<1>6. QED
  BY <1>4, <1>5

\* One of the inserts: the row is the call's own.
LEMMA SyncInsertKeeps ==
  ASSUME ConstantsAssumption, IInv, NEW c \in Callers, SyncInsert(c)
  PROVE  IInv'
<1>0. PICK k : k = NameIn(calls[c])
  OBVIOUS
<1>1. /\ calls[c] # None /\ calls[c].step = "insert" /\ Len(rows) < MaxRows /\ OneLess(c)
      /\ UNCHANGED <<grants, batch, hand, acking, made, last, calm>>
  BY DEF SyncInsert
<1>2. PICK x \in Call \cup {None} :
        /\ calls' = [calls EXCEPT ![c] = x] /\ Continues(c, k, x)
        /\ x # None => x.id = calls[c].id /\ x.step = "insert"
  BY <1>0, <1>1, OneLessFacts
<1>3. PICK row : row = [name |-> k, user |-> calls[c].grant.user, scope |-> calls[c].grant.scope,
                        by |-> calls[c].id, status |-> "pending"]
  OBVIOUS
<1>4. rows' = Append(rows, row)
  BY <1>0, <1>3 DEF SyncInsert
<1>5. /\ row \in Row /\ row.name = k /\ row.by = calls[c].id /\ row.status = "pending"
  BY <1>0, <1>1, <1>3, CallFacts DEF IInv, Row, Grant
<1>6. /\ Len(rows) \in Nat /\ rows' \in Seq(Row) /\ Len(rows') = Len(rows) + 1
      /\ \A r \in 1..Len(rows) : rows'[r] = rows[r]
      /\ rows'[Len(rows) + 1] = row
  BY <1>4, <1>5, RowFacts, AppendProperties DEF IInv, TypeOK
<1>7. /\ On(c, k) /\ made \in Nat /\ made <= made'
      /\ batch \cup acking \subseteq 1..Len(rows) /\ hand \in 0..Len(rows)
  BY <1>0, <1>1, RowFacts DEF On, IInv, TypeOK
<1>8. /\ 1..Len(rows) \subseteq 1..Len(rows') /\ 0..Len(rows) \subseteq 0..Len(rows')
      /\ \A r \in 1..Len(rows') : r \in 1..Len(rows) \/ r = Len(rows) + 1
      /\ Len(rows) + 1 \in 1..Len(rows') /\ ~InFlight(Len(rows) + 1)
  BY <1>6, <1>7 DEF InFlight
<1>9. TypeOK'
  <2>1. Len(rows') <= MaxRows
    BY <1>1, <1>6 DEF ConstantsAssumption
  <2>2. QED
    BY <1>1, <1>2, <1>6, <1>7, <1>8, <2>1 DEF IInv, TypeOK
<1>10. FlightInv'
  BY <1>1, <1>5, <1>6, <1>8 DEF IInv, FlightInv, InFlight
<1>11. OwnRows(c, k)
  BY <1>1, <1>5, <1>6, <1>8 DEF OwnRows
<1>12. \A n : n # k => LiveRows(n)' = LiveRows(n)
  BY <1>5, <1>6, <1>8 DEF LiveRows
<1>13. OtherNames(k)
  BY <1>1, <1>12 DEF OtherNames
<1>14. OwnName(c, k, x)
  <2>1. SUFFICES ASSUME k \in calm
                 PROVE  /\ \A d \in Callers : On(d, k) => d = c
                        /\ LiveRows(k)' = RowsBy(k, last[k])'
                        /\ last[k] = calls[c].id
    BY <1>1, <1>2 DEF OwnName
  <2>2. (\A d \in Callers : On(d, k) => d = c) /\ last[k] = calls[c].id
    BY <1>1, <1>7, <2>1 DEF IInv, CallInv
  <2>3. LiveRows(k) = RowsBy(k, last[k])
    BY <2>1 DEF IInv, LastCallDecides
  <2>4. LiveRows(k)' = LiveRows(k) \cup {Len(rows) + 1}
    BY <1>5, <1>6, <1>8 DEF LiveRows
  <2>5. RowsBy(k, last[k])' = RowsBy(k, last[k]) \cup {Len(rows) + 1}
    BY <1>1, <1>5, <1>6, <1>8, <2>2 DEF RowsBy
  <2>6. QED
    BY <2>2, <2>3, <2>4, <2>5
<1>15. QED
  BY <1>2, <1>7, <1>9, <1>10, <1>11, <1>13, <1>14, CallKeeps

\* What goes on with no change to the tasks.
LEMMA NoRowsKeeps ==
  ASSUME IInv, NEW c \in Callers, NEW x \in Call \cup {None}, NEW k,
         UNCHANGED <<grants, tasks, made, last, calm>>, On(c, k),
         calls' = [calls EXCEPT ![c] = x], Continues(c, k, x),
         x # None => x.id = calls[c].id /\ calls[c].step = "insert"
  PROVE  IInv'
<1>1. UNCHANGED <<rows, batch, hand, acking>> /\ made \in Nat /\ made <= made'
  BY RowFacts DEF IInv, TypeOK, tasks
<1>2. TypeOK' /\ FlightInv'
  BY <1>1 DEF IInv, TypeOK, FlightInv, InFlight
<1>3. OwnRows(c, k)
  <2>1. Len(rows) \in Nat
    BY RowFacts DEF IInv
  <2>2. Len(rows) <= Len(rows') /\ \A r \in 1..Len(rows') : ~(r > Len(rows))
    BY <1>1, <2>1
  <2>3. QED
    BY <1>1, <2>2 DEF OwnRows
<1>4. \A n : LiveRows(n)' = LiveRows(n) /\ RowsBy(n, last[n])' = RowsBy(n, last[n])
  BY <1>1 DEF LiveRows, RowsBy
<1>5. OtherNames(k) /\ OwnName(c, k, x)
  BY <1>4 DEF OtherNames, OwnName, IInv, LastCallDecides, CallInv
<1>6. QED
  BY <1>1, <1>2, <1>3, <1>5, CallKeeps

LEMMA SyncSkipKeeps ==
  ASSUME ConstantsAssumption, IInv, NEW c \in Callers, SyncSkip(c)
  PROVE  IInv'
<1>1. PICK k : k = NameIn(calls[c])
  OBVIOUS
<1>2. /\ calls[c] # None /\ calls[c].step = "insert" /\ OneLess(c) /\ On(c, k)
      /\ UNCHANGED <<grants, tasks, made, last, calm>>
  BY <1>1 DEF SyncSkip, On
<1>3. PICK x \in Call \cup {None} :
        /\ calls' = [calls EXCEPT ![c] = x] /\ Continues(c, k, x)
        /\ x # None => x.id = calls[c].id /\ x.step = "insert"
  BY <1>1, <1>2, OneLessFacts
<1>4. QED
  BY <1>2, <1>3, NoRowsKeeps

LEMMA FailKeeps ==
  ASSUME ConstantsAssumption, IInv, NEW c \in Callers, CallFails(c)
  PROVE  IInv'
<1>1. PICK k : k = NameIn(calls[c])
  OBVIOUS
<1>2. /\ On(c, k) /\ calls' = [calls EXCEPT ![c] = None]
      /\ UNCHANGED <<grants, tasks, made, last, calm>>
  BY <1>1 DEF CallFails, On
<1>3. Continues(c, k, None)
  BY <1>2 DEF Continues, On
<1>4. QED
  BY <1>2, <1>3, NoRowsKeeps

-----------------------------------------------------------------------------
\* Every step keeps the invariant.
LEMMA NextKeeps ==
  ASSUME ConstantsAssumption, IInv, [Next]_vars
  PROVE  IInv'
<1>1. CASE ToolStep
  BY <1>1, CallBegins, SyncCancelKeeps, SyncInsertKeeps, SyncSkipKeeps, RevokeKeeps, FailKeeps
     DEF ToolStep
<1>2. CASE TickStep
  BY <1>2, TickStepKeeps
<1>3. CASE UserStep
  BY <1>3, UserStepKeeps
<1>4. CASE UNCHANGED vars
  <2>1. UNCHANGED <<grants, rows, batch, hand, acking, calls, made, last, calm>>
    BY <1>4 DEF vars, tasks
  <2>2. QED
    BY <2>1, TasksKeep DEF IInv, TypeOK, InFlight
<1>5. QED
  BY <1>1, <1>2, <1>3, <1>4 DEF Next

LEMMA Invariant == ASSUME ConstantsAssumption PROVE Spec => []IInv
<1>1. Init => IInv
  BY InitIInv
<1>2. IInv /\ [Next]_vars => IInv'
  BY NextKeeps
<1>3. QED
  BY <1>1, <1>2, PTL DEF Spec

\* The tables of grants and tasks, the calls and what is in flight keep their shape,
\* whatever tools, tick and users do to each other.
THEOREM TypeCorrect == ASSUME ConstantsAssumption PROVE Spec => []TypeOK
<1>1. IInv => TypeOK
  BY DEF IInv
<1>2. QED
  BY <1>1, Invariant, PTL

\* SyncPowerSchedules and RemovePowerSchedules: once a call on a power has cancelled its
\* tasks with none of them in flight, its inserts alone make the power's schedule, with
\* lost UPDATEs, acks that overlap and recoveries, until something meets it.
THEOREM LastCallHolds == ASSUME ConstantsAssumption PROVE Spec => []LastCallDecides
<1>1. IInv => LastCallDecides
  BY DEF IInv
<1>2. QED
  BY <1>1, Invariant, PTL

-----------------------------------------------------------------------------
(* Cancelled tasks.                                                        *)

\* Whatever is neither selected nor awaiting an ack, and not recovered, stays.
LEMMA GoneStays ==
  ASSUME TypeOK, [Next]_vars, NEW r \in 1..Len(rows), Gone(r)
  PROVE  Gone(r)'
<1>0. rows[r].status = "cancelled" /\ r \notin batch /\ r \notin acking /\ r # hand
  BY DEF Gone, InFlight
<1>1. SUFFICES /\ rows'[r] = rows[r] \/ rows'[r].status = "cancelled"
               /\ r \notin batch' /\ r \notin acking' /\ r # hand'
  BY <1>0 DEF Gone, InFlight
<1>2. CASE ToolStep
  <2>1. PICK c \in Callers :
          \/ \E g \in Grant : GrantInsert(c, g) \/ RevokeDelete(c, g)
          \/ SyncCancel(c) \/ SyncInsert(c) \/ SyncSkip(c) \/ RemovePowerSchedules(c)
          \/ CallFails(c)
    BY <1>2 DEF ToolStep
  <2>2. UNCHANGED <<batch, hand, acking>>
    BY <2>1 DEF GrantInsert, RevokeDelete, SyncCancel, SyncInsert, SyncSkip,
                RemovePowerSchedules, CallFails, tasks
  <2>3. CASE \E g \in Grant : GrantInsert(c, g) \/ RevokeDelete(c, g)
    BY <1>0, <2>2, <2>3 DEF GrantInsert, RevokeDelete, tasks
  <2>4. CASE SyncCancel(c) \/ RemovePowerSchedules(c)
    <3>1. PICK k : k = NameIn(calls[c])
      OBVIOUS
    <3>2. CancelSystem(k) \/ UNCHANGED rows
      BY <2>4, <3>1 DEF SyncCancel, RemovePowerSchedules
    <3>3. rows'[r].status \in {rows[r].status, "cancelled"}
      BY <3>2, CancelFacts
    <3>4. QED
      BY <1>0, <2>2, <3>3
  <2>5. CASE SyncInsert(c)
    <3>1. PICK row : rows' = Append(rows, row)
      BY <2>5 DEF SyncInsert
    <3>2. rows \in Seq(Row \cup {row})
      BY DEF TypeOK
    <3>3. rows'[r] = rows[r]
      BY <3>1, <3>2, AppendProperties
    <3>4. QED
      BY <1>0, <2>2, <3>3
  <2>6. CASE SyncSkip(c) \/ CallFails(c)
    BY <1>0, <2>2, <2>6 DEF SyncSkip, CallFails, tasks
  <2>7. QED
    BY <2>1, <2>3, <2>4, <2>5, <2>6
<1>3. CASE TickStep
  <2>1. ASSUME NEW due \in SUBSET (1..Len(rows)), TickSelects(due) PROVE Gone(r)'
    <3>1. r \notin due
      BY <1>0, <2>1 DEF TickSelects
    <3>2. QED
      BY <1>0, <2>1, <3>1 DEF TickSelects, Gone, InFlight
  <2>2. ASSUME NEW q \in batch, TickMarks(q) PROVE Gone(r)'
    <3>1. /\ q \in 1..Len(rows) /\ q # r /\ hand' = q /\ batch' = batch \ {q}
          /\ SetStatus(q, "running") \/ UNCHANGED rows
          /\ UNCHANGED acking
      BY <1>0, <2>2 DEF TickMarks, TickUpdate, TypeOK
    <3>2. rows'[r] = rows[r]
      BY <3>1, UpdateFacts
    <3>3. QED
      BY <1>0, <3>1, <3>2 DEF Gone, InFlight
  <2>3. CASE TickEnds \/ TickReverts
    <3>1. PICK s \in {"awaiting_ack", "pending"} : SetStatus(hand, s) \/ UNCHANGED rows
      BY <2>3 DEF TickEnds, TickReverts, TickUpdate
    <3>2. /\ hand \in 1..Len(rows) /\ hand' = 0 /\ batch' \subseteq batch /\ UNCHANGED acking
          /\ 0 \notin 1..Len(rows)
      BY <2>3, RowFacts DEF TickEnds, TickReverts
    <3>3. rows'[r] = rows[r]
      BY <1>0, <3>1, <3>2, UpdateFacts
    <3>4. QED
      BY <1>0, <3>2, <3>3 DEF Gone, InFlight
  <2>4. ASSUME NEW kept \in SUBSET batch, TickForgets(kept) PROVE Gone(r)'
    <3>1. r # 0
      BY RowFacts
    <3>2. QED
      BY <1>0, <2>4, <3>1 DEF TickForgets, Gone, InFlight
  <2>5. CASE Recover
    <3>1. rows'[r] = rows[r] /\ UNCHANGED <<batch, hand, acking>>
      BY <1>0, <2>5 DEF Recover
    <3>2. QED
      BY <1>0, <3>1 DEF Gone, InFlight
  <2>6. QED
    BY <1>0, <1>3, <2>1, <2>2, <2>3, <2>4, <2>5 DEF TickStep, Gone, InFlight
<1>4. CASE UserStep
  <2>1. PICK q \in 1..Len(rows) : AckRead(q) \/ AckWrite(q) \/ Delay(q) \/ Cancel(q)
    BY <1>4 DEF UserStep
  <2>2. CASE AckRead(q)
    BY <1>0, <2>2 DEF AckRead
  <2>3. CASE AckWrite(q)
    <3>1. /\ q \in acking /\ acking' \subseteq acking /\ UNCHANGED <<batch, hand>>
          /\ SetStatus(q, "pending") \/ UNCHANGED rows
      BY <2>3 DEF AckWrite
    <3>2. rows'[r] = rows[r]
      BY <1>0, <3>1, UpdateFacts
    <3>3. QED
      BY <1>0, <3>1, <3>2
  <2>4. CASE Delay(q)
    <3>1. q # r /\ SetStatus(q, "pending") /\ UNCHANGED <<batch, hand, acking>>
      BY <1>0, <2>4 DEF Delay
    <3>2. rows'[r] = rows[r]
      BY <3>1, UpdateFacts
    <3>3. QED
      BY <1>0, <3>1, <3>2
  <2>5. CASE Cancel(q)
    <3>1. q # r /\ SetStatus(q, "cancelled") /\ UNCHANGED <<batch, hand, acking>>
      BY <1>0, <2>5 DEF Cancel
    <3>2. rows'[r] = rows[r]
      BY <3>1, UpdateFacts
    <3>3. QED
      BY <1>0, <3>1, <3>2
  <2>6. QED
    BY <2>1, <2>2, <2>3, <2>4, <2>5
<1>5. CASE UNCHANGED vars
  BY <1>0, <1>5 DEF vars, tasks
<1>6. QED
  BY <1>2, <1>3, <1>4, <1>5 DEF Next

\* A task that power_revoke, a new grant or a user has cancelled with nobody about to
\* update it by its id never runs again: neither the query nor Recover nor an Ack takes it.
THEOREM CancelledStays == ASSUME ConstantsAssumption PROVE Spec => CancelledForGood
<1> DEFINE A == \A r \in 1..Len(rows) : Gone(r) => Gone(r)'
<1>1. IInv /\ [Next]_vars => [A]_vars
  BY GoneStays DEF IInv
<1>2. QED
  BY <1>1, Invariant, PTL DEF Spec, CancelledForGood

=============================================================================
