--------------------------- MODULE PipelineProofs ---------------------------
(***************************************************************************)
(* The safety properties of Pipeline, and that it implements Intake, for   *)
(* any set of goroutines, sources and users, any capacity and any number   *)
(* of messages.                                                            *)
(***************************************************************************)
EXTENDS Pipeline, SequenceTheorems, TLAPS

\* The loop is off until it is started. It holds a message exactly while it handles
\* one; it has a target while it routes the reply, and may still send it to an agent.
LoopInv ==
  /\ main \in {"telepath", "schedule", "loop"} => loop = "off"
  /\ cur # None <=> loop \in {"process", "run", "route"}
  /\ target # None <=> loop = "route"
  /\ target \in AgentSources => cur.hops < MaxHops

\* A message that is being sent is new to the channel, and the numbers of the
\* messages that were sent are not used again.
HeldInv ==
  /\ \A p \in Producers : held[p] # None =>
       /\ held[p].hops = 0 /\ held[p].id <= sent
       /\ \A k \in accepted : k[1] # held[p].id
       /\ \A q \in Producers : q # p /\ held[q] # None => held[q].id # held[p].id
  /\ \A k \in accepted : k[1] <= sent

\* The messages in the channel, and those there or in the loop's hands.
Waiting    == {inbound[i] : i \in 1..Len(inbound)}
Travelling == Waiting \cup (IF cur = None THEN {} ELSE {cur})

\* Of a chain of agents' messages only the last is on its way; those agents have sent
\* carry no user, and nobody can approve that.
ChainInv ==
  /\ \A m \in Travelling :
       /\ \A k \in accepted : k[1] = m.id => k[2] <= m.hops
       /\ m.hops > 0 => m.user = NoUser
  /\ NoUser \notin approved

\* Past the stop of the schedule the tick has returned, past that of the sources
\* nothing is left to drain.
StopInv ==
  /\ main \in {"draining", "closed", "cancelled"} => Tick \in gone
  /\ Tick \in gone => held[Tick] = None
  /\ main \in {"closed", "cancelled"} => held[Drain] = None

IInv ==
  /\ TypeOK /\ NothingLost /\ LoopInv /\ HeldInv /\ ChainInv /\ StopInv
  /\ GateStopsHops /\ StopOrder

-----------------------------------------------------------------------------
(* Lemmas about keys and sequences of them.                                *)

\* A message has a key.
LEMMA KeyType ==
  ASSUME NEW m \in Message
  PROVE  Key(m) \in Keys
BY ConstantsAssumption DEF Message, Key, Keys

\* The keys of a queue of messages are a queue of keys, as long and in the same order.
LEMMA KeyedSeq ==
  ASSUME NEW s \in Seq(Message)
  PROVE  /\ Keyed(s) \in Seq(Keys) /\ Len(Keyed(s)) = Len(s)
         /\ \A i \in 1..Len(s) : Keyed(s)[i] = Key(s[i])
<1>1. Len(s) \in Nat /\ \A i \in 1..Len(s) : s[i] \in Message
  BY LenProperties, ElementOfSeq
<1>2. \A i \in 1..Len(s) : Key(s[i]) \in Keys
  BY <1>1, KeyType
<1>3. Keyed(s) \in [1..Len(s) -> Keys]
  BY <1>2 DEF Keyed
<1>4. Keyed(s) \in Seq(Keys)
  BY <1>1, <1>3, SeqDef
<1>5. DOMAIN Keyed(s) = 1..Len(s)
  BY <1>3
<1>6. Len(Keyed(s)) = Len(s)
  BY <1>1, <1>4, <1>5, LenProperties
<1>7. QED
  BY <1>4, <1>6 DEF Keyed

\* A message put into the channel puts its key at the end of the queue of keys.
LEMMA KeyedAppend ==
  ASSUME NEW s \in Seq(Message), NEW m \in Message
  PROVE  Keyed(Append(s, m)) = Append(Keyed(s), Key(m))
<1>1. /\ Append(s, m) \in Seq(Message) /\ Len(Append(s, m)) = Len(s) + 1
      /\ \A i \in 1..Len(s) : Append(s, m)[i] = s[i]
      /\ Append(s, m)[Len(s) + 1] = m
  BY AppendProperties
<1>2. /\ Keyed(Append(s, m)) \in Seq(Keys) /\ Len(Keyed(Append(s, m))) = Len(s) + 1
      /\ \A i \in 1..Len(s) + 1 : Keyed(Append(s, m))[i] = Key(Append(s, m)[i])
  BY <1>1, KeyedSeq
<1>3. /\ Keyed(s) \in Seq(Keys) /\ Len(Keyed(s)) = Len(s)
      /\ \A i \in 1..Len(s) : Keyed(s)[i] = Key(s[i])
  BY KeyedSeq
<1>4. /\ Append(Keyed(s), Key(m)) \in Seq(Keys)
      /\ Len(Append(Keyed(s), Key(m))) = Len(s) + 1
      /\ \A i \in 1..Len(s) : Append(Keyed(s), Key(m))[i] = Keyed(s)[i]
      /\ Append(Keyed(s), Key(m))[Len(s) + 1] = Key(m)
  BY <1>3, KeyType, AppendProperties
<1>5. ASSUME NEW i \in 1..Len(s) + 1
      PROVE  Keyed(Append(s, m))[i] = Append(Keyed(s), Key(m))[i]
  <2>1. i \in 1..Len(s) \/ i = Len(s) + 1
    BY LenProperties
  <2>2. CASE i \in 1..Len(s)
    BY <2>2, <1>1, <1>2, <1>3, <1>4
  <2>3. CASE i = Len(s) + 1
    BY <2>3, <1>1, <1>2, <1>4
  <2>4. QED
    BY <2>1, <2>2, <2>3
<1>6. QED
  BY <1>2, <1>4, <1>5, SeqEqual

\* Taking the first message takes its key.
LEMMA KeyedTail ==
  ASSUME NEW s \in Seq(Message), s # <<>>
  PROVE  /\ Keyed(s) # <<>> /\ Head(Keyed(s)) = Key(Head(s))
         /\ Keyed(Tail(s)) = Tail(Keyed(s))
<1>1. /\ Len(s) \in Nat \ {0} /\ Tail(s) \in Seq(Message) /\ Len(Tail(s)) = Len(s) - 1
      /\ \A i \in 1..Len(Tail(s)) : Tail(s)[i] = s[i + 1]
  BY EmptySeq, HeadTailProperties
<1>2. /\ Keyed(s) \in Seq(Keys) /\ Len(Keyed(s)) = Len(s)
      /\ \A i \in 1..Len(s) : Keyed(s)[i] = Key(s[i])
  BY KeyedSeq
<1>3. Keyed(s) # <<>>
  BY <1>1, <1>2, EmptySeq
<1>4. Head(Keyed(s)) = Key(Head(s))
  BY <1>1, <1>2, <1>3
<1>5. /\ Tail(Keyed(s)) \in Seq(Keys) /\ Len(Tail(Keyed(s))) = Len(s) - 1
      /\ \A i \in 1..Len(s) - 1 : Tail(Keyed(s))[i] = Keyed(s)[i + 1]
  BY <1>2, <1>3, HeadTailProperties
<1>6. /\ Keyed(Tail(s)) \in Seq(Keys) /\ Len(Keyed(Tail(s))) = Len(s) - 1
      /\ \A i \in 1..Len(s) - 1 : Keyed(Tail(s))[i] = Key(Tail(s)[i])
  BY <1>1, KeyedSeq
<1>7. \A i \in 1..Len(s) - 1 : Keyed(Tail(s))[i] = Tail(Keyed(s))[i]
  BY <1>1, <1>2, <1>5, <1>6
<1>8. Keyed(Tail(s)) = Tail(Keyed(s))
  BY <1>5, <1>6, <1>7, SeqEqual
<1>9. QED
  BY <1>3, <1>4, <1>8

-----------------------------------------------------------------------------
USE ConstantsAssumption DEF Producers, vars, users, hist, Ended, Closed, Cancelled

\* What waits in the channel are messages, and their keys are Queued.
LEMMA WaitingType ==
  ASSUME TypeOK
  PROVE  /\ Len(inbound) \in Nat /\ Waiting \subseteq Message
         /\ Queued = {Key(m) : m \in Waiting}
<1>1. inbound \in Seq(Message)
  BY DEF TypeOK
<1>2. Len(inbound) \in Nat /\ \A i \in 1..Len(inbound) : inbound[i] \in Message
  BY <1>1, LenProperties, ElementOfSeq
<1>3. QED
  BY <1>2 DEF Waiting, Queued

\* A message that enters the channel is the last in it.
LEMMA Enters ==
  ASSUME TypeOK, NothingLost, NEW m \in Message, Len(inbound) < InboundCap,
         Key(m) \notin Queued, inbound' = Append(inbound, m)
  PROVE  /\ inbound' \in Seq(Message) /\ Len(inbound') <= InboundCap
         /\ Waiting' = Waiting \cup {m} /\ Queued' = Queued \cup {Key(m)}
         /\ \A i, j \in 1..Len(inbound') : Key(inbound'[i]) = Key(inbound'[j]) => i = j
<1>1. inbound \in Seq(Message) /\ Len(inbound) \in Nat
  BY LenProperties DEF TypeOK
<1>2. /\ inbound' \in Seq(Message) /\ Len(inbound') = Len(inbound) + 1
      /\ \A i \in 1..Len(inbound) : inbound'[i] = inbound[i]
      /\ inbound'[Len(inbound) + 1] = m
  BY <1>1, AppendProperties
<1>3. 1..Len(inbound') = 1..Len(inbound) \cup {Len(inbound) + 1}
  BY <1>1, <1>2
<1>4. Waiting' = Waiting \cup {m} /\ Queued' = Queued \cup {Key(m)}
  BY <1>2, <1>3 DEF Waiting, Queued
<1>5. ASSUME NEW i \in 1..Len(inbound'), NEW j \in 1..Len(inbound'),
             Key(inbound'[i]) = Key(inbound'[j])
      PROVE  i = j
  BY <1>2, <1>3, <1>5 DEF NothingLost, Queued
<1>6. QED
  BY <1>1, <1>2, <1>4, <1>5

\* A message that leaves the channel is the first in it, and no other has its key.
LEMMA Leaves ==
  ASSUME TypeOK, NothingLost, inbound # <<>>, inbound' = Tail(inbound)
  PROVE  /\ Head(inbound) \in Waiting /\ Key(Head(inbound)) \in Queued
         /\ inbound' \in Seq(Message) /\ Len(inbound') <= InboundCap
         /\ Waiting' \subseteq Waiting /\ Queued' = Queued \ {Key(Head(inbound))}
         /\ \A i, j \in 1..Len(inbound') : Key(inbound'[i]) = Key(inbound'[j]) => i = j
<1>1. inbound \in Seq(Message) /\ Len(inbound) \in Nat \ {0}
  BY EmptySeq DEF TypeOK
<1>2. /\ inbound' \in Seq(Message) /\ Len(inbound') = Len(inbound) - 1
      /\ \A i \in 1..Len(inbound') : inbound'[i] = inbound[i + 1]
  BY <1>1, HeadTailProperties
<1>3. Head(inbound) = inbound[1]
  BY <1>1
<1>4. Waiting' \subseteq Waiting
  BY <1>1, <1>2 DEF Waiting
<1>5. \A i \in 1..Len(inbound') : i + 1 \in 1..Len(inbound) /\ i + 1 # 1
  BY <1>1, <1>2
<1>6. \A i \in 1..Len(inbound) : i # 1 => i - 1 \in 1..Len(inbound')
  BY <1>1, <1>2
<1>7. Queued' = Queued \ {Key(Head(inbound))}
  <2>1. ASSUME NEW k \in Queued'
        PROVE  k \in Queued /\ k # Key(Head(inbound))
    BY <1>1, <1>2, <1>3, <1>5 DEF NothingLost, Queued
  <2>2. ASSUME NEW k \in Queued, k # Key(Head(inbound))
        PROVE  k \in Queued'
    <3>1. PICK i \in 1..Len(inbound) : k = Key(inbound[i])
      BY DEF Queued
    <3>2. i # 1
      BY <2>2, <3>1, <1>3
    <3>3. i - 1 \in 1..Len(inbound') /\ inbound'[i - 1] = inbound[i]
      BY <3>2, <1>2, <1>6
    <3>4. QED
      BY <3>1, <3>3 DEF Queued
  <2>3. QED
    BY <2>1, <2>2
<1>8. ASSUME NEW i \in 1..Len(inbound'), NEW j \in 1..Len(inbound'),
             Key(inbound'[i]) = Key(inbound'[j])
      PROVE  i = j
  BY <1>1, <1>2, <1>5, <1>8 DEF NothingLost
<1>9. Head(inbound) \in Waiting /\ Key(Head(inbound)) \in Queued
  BY <1>1, <1>3 DEF Waiting, Queued
<1>10. Len(inbound') <= InboundCap
  BY <1>1, <1>2 DEF TypeOK
<1>11. QED
  BY <1>2, <1>4, <1>7, <1>8, <1>9, <1>10

\* Init satisfies the invariant.
LEMMA InitIInv == Init => IInv
<1> SUFFICES ASSUME Init PROVE IInv
  OBVIOUS
<1>1. inbound \in Seq(Message) /\ Len(inbound) = 0
  BY EmptySeq DEF Init
<1>2. Waiting = {} /\ Queued = {}
  BY <1>1 DEF Waiting, Queued
<1>3. QED
  BY <1>1, <1>2 DEF Init, IInv, TypeOK, NothingLost, Current, LoopInv, HeldInv, ChainInv,
     Travelling, StopInv, GateStopsHops, StopOrder

\* A goroutine is about to send a message of its own.
LEMMA EmitStep ==
  ASSUME IInv, NEW p \in Producers, Emit(p)
  PROVE  IInv'
<1> USE DEF Emit
<1>1. PICK e \in [src : Origins, user : Users, reply : BOOLEAN] :
        held' = [held EXCEPT ![p] =
          [id |-> sent + 1, from |-> p, src |-> e.src, user |-> e.user,
           reply |-> e.reply, depth |-> 0, hops |-> 0]]
  OBVIOUS
<1>2. held'[p] \in Message /\ held'[p].id = sent + 1 /\ held'[p].hops = 0
  BY <1>1 DEF Message, IInv, TypeOK
<1>3. /\ \A q \in Producers : q # p => held'[q] = held[q]
      /\ held' \in [Producers -> Message \cup {None}]
  BY <1>1, <1>2 DEF IInv, TypeOK
<1>4. Waiting' = Waiting /\ Queued' = Queued /\ Current' = Current
  BY DEF Waiting, Queued, Current
<1>5. TypeOK' /\ NothingLost'
  BY <1>3, <1>4 DEF IInv, TypeOK, NothingLost
<1>6. HeldInv'
  <2>1. \A k \in accepted : k[1] \in Nat /\ k[1] <= sent
    BY DEF IInv, TypeOK, Keys, HeldInv
  <2>2. /\ sent \in Nat /\ sent' = sent + 1
        /\ \A q \in Producers : held[q] # None => held[q].id \in Nat /\ held[q].id <= sent
    BY DEF IInv, TypeOK, Message, HeldInv
  <2>3. \A q \in Producers : held'[q] # None =>
          /\ held'[q].hops = 0 /\ held'[q].id <= sent'
          /\ \A k \in accepted : k[1] # held'[q].id
    BY <1>2, <1>3, <2>1, <2>2 DEF IInv, HeldInv
  <2>4. \A q, r \in Producers :
          q # r /\ held'[q] # None /\ held'[r] # None => held'[q].id # held'[r].id
    BY <1>2, <1>3, <2>2 DEF IInv, HeldInv
  <2>5. QED
    BY <2>1, <2>2, <2>3, <2>4 DEF HeldInv
<1>7. StopInv'
  BY <1>3 DEF IInv, StopInv, MayEmit
<1>8. LoopInv' /\ ChainInv' /\ GateStopsHops' /\ StopOrder'
  BY <1>4 DEF IInv, LoopInv, ChainInv, Travelling, GateStopsHops, StopOrder
<1>9. QED
  BY <1>5, <1>6, <1>7, <1>8 DEF IInv

\* A message enters the channel: its number is new there.
LEMMA PushStep ==
  ASSUME IInv, NEW p \in Producers, Push(p)
  PROVE  IInv'
<1> USE DEF Push
<1> DEFINE m == held[p]
<1>0. m \in Message /\ Key(m) \in Keys /\ m.hops = 0
  BY KeyType DEF IInv, TypeOK, HeldInv
<1>1. Key(m) \notin accepted
  BY DEF IInv, HeldInv, Key
<1>2. Key(m) \notin Queued /\ Key(m) \notin settled /\ Key(m) \notin Current
  BY <1>1 DEF IInv, NothingLost
<1>3. /\ inbound' \in Seq(Message) /\ Len(inbound') <= InboundCap
      /\ Waiting' = Waiting \cup {m} /\ Queued' = Queued \cup {Key(m)}
      /\ \A i, j \in 1..Len(inbound') : Key(inbound'[i]) = Key(inbound'[j]) => i = j
  BY <1>0, <1>2, Enters DEF IInv
<1>4. Current' = Current
  BY DEF Current
<1>5. TypeOK'
  BY <1>0, <1>3 DEF IInv, TypeOK
<1>6. NothingLost'
  BY <1>2, <1>3, <1>4 DEF IInv, NothingLost
<1>7. /\ held'[p] = None /\ \A q \in Producers : q # p => held'[q] = held[q]
  BY DEF IInv, TypeOK
<1>8. HeldInv'
  <2>1. Key(m)[1] = m.id /\ m.id <= sent
    BY DEF IInv, HeldInv, Key
  <2>2. QED
    BY <1>7, <2>1 DEF IInv, HeldInv
<1>9. ChainInv'
  <2>1. Travelling' = Travelling \cup {m}
    BY <1>3 DEF Travelling
  <2>2. \A n \in Travelling : Key(n) \in accepted /\ n \in Message
    BY WaitingType DEF IInv, NothingLost, Travelling, Current, TypeOK
  <2>3. \A n \in Travelling : n.id # m.id
    BY <2>2 DEF IInv, HeldInv, Key
  <2>4. Key(m) = <<m.id, 0>>
    BY <1>0 DEF Key
  <2>5. QED
    BY <1>0, <2>1, <2>3, <2>4 DEF IInv, ChainInv, HeldInv
<1>10. StopInv'
  BY <1>7 DEF IInv, StopInv
<1>11. LoopInv' /\ GateStopsHops' /\ StopOrder'
  BY DEF IInv, LoopInv, GateStopsHops, StopOrder
<1>12. QED
  BY <1>5, <1>6, <1>8, <1>9, <1>10, <1>11 DEF IInv

\* A step that moves no message: what is sent, queued, handled and settled stays.
LEMMA NoMessageMoves ==
  ASSUME IInv, UNCHANGED <<held, inbound, cur, sent, hist>>, NoUser \notin approved'
  PROVE  NothingLost' /\ HeldInv' /\ ChainInv'
<1>1. Waiting' = Waiting /\ Queued' = Queued /\ Current' = Current
  BY DEF Waiting, Queued, Current
<1>2. QED
  BY <1>1 DEF IInv, NothingLost, HeldInv, ChainInv, Travelling

\* A send panics, of a goroutine other than the tick and the one that drains.
LEMMA PanicStep ==
  ASSUME IInv, (\E p \in Producers : Panic(p)) \/ AgentSendPanics
  PROVE  IInv'
<1> USE DEF Panic, AgentSendPanics
<1>1. panicked' \in Producers \cup {Loop} /\ panicked' \notin {Tick, Drain}
  BY DEF IInv, StopInv
<1>2. NothingLost' /\ HeldInv' /\ ChainInv'
  BY NoMessageMoves DEF IInv, ChainInv
<1>3. TypeOK' /\ LoopInv' /\ StopInv' /\ GateStopsHops' /\ StopOrder'
  BY <1>1 DEF IInv, TypeOK, LoopInv, StopInv, GateStopsHops, StopOrder
<1>4. QED
  BY <1>2, <1>3 DEF IInv

\* A reader or the tick returns, with nothing left to send.
LEMMA ReturnStep ==
  ASSUME IInv, (\E p \in Producers : ReaderEnds(p)) \/ TickEnds
  PROVE  IInv'
<1> USE DEF ReaderEnds, TickEnds
<1>1. NothingLost' /\ HeldInv' /\ ChainInv'
  BY NoMessageMoves DEF IInv, ChainInv
<1>2. TypeOK' /\ LoopInv' /\ StopInv' /\ GateStopsHops' /\ StopOrder'
  BY DEF IInv, TypeOK, LoopInv, StopInv, GateStopsHops, StopOrder
<1>3. QED
  BY <1>1, <1>2 DEF IInv

\* The main goroutine goes on: it has waited for the tick, and drained what there was.
LEMMA MainLemma ==
  ASSUME IInv, MainStep
  PROVE  IInv'
<1> USE DEF MainStep, MainTo, StartTelepath, StartSchedule, StartLoop, StartFails, Signal,
            StopSchedule, StopTelepath, Cancel, Exit
<1>1. NothingLost' /\ HeldInv' /\ ChainInv'
  BY NoMessageMoves DEF IInv, ChainInv
<1>2. StopInv'
  BY DEF IInv, StopInv
<1>3. TypeOK'
  BY DEF IInv, TypeOK
<1>4. \/ /\ loop' = loop /\ main' \notin {"telepath", "loop"}
         /\ main' = "schedule" => main = "telepath"
      \/ loop' = loop /\ main' = "loop" /\ main = "schedule"
      \/ loop' = "select" /\ main = "loop" /\ main' = "serving"
  OBVIOUS
<1>5. LoopInv' /\ GateStopsHops' /\ StopOrder'
  BY DEF IInv, LoopInv, GateStopsHops, StopOrder
<1>6. QED
  BY <1>1, <1>2, <1>3, <1>5 DEF IInv

\* The loop takes the first message.
LEMMA ReceiveStep ==
  ASSUME IInv, Receive
  PROVE  IInv'
<1> USE DEF Receive
<1> DEFINE m == Head(inbound)
<1>1. /\ m \in Waiting /\ Key(m) \in Queued
      /\ inbound' \in Seq(Message) /\ Len(inbound') <= InboundCap
      /\ Waiting' \subseteq Waiting /\ Queued' = Queued \ {Key(m)}
      /\ \A i, j \in 1..Len(inbound') : Key(inbound'[i]) = Key(inbound'[j]) => i = j
  BY Leaves DEF IInv
<1>2. m \in Message /\ m # None
  BY <1>1, WaitingType DEF IInv
<1>3. cur = None /\ Current = {} /\ Current' = {Key(m)}
  BY <1>2 DEF IInv, LoopInv, Current
<1>4. TypeOK'
  BY <1>1, <1>2 DEF IInv, TypeOK
<1>5. NothingLost'
  BY <1>1, <1>3 DEF IInv, NothingLost
<1>6. Travelling' \subseteq Travelling
  BY <1>1, <1>2 DEF Travelling
<1>7. ChainInv' /\ HeldInv'
  BY <1>6 DEF IInv, ChainInv, HeldInv
<1>8. LoopInv'
  BY <1>2 DEF IInv, LoopInv
<1>9. StopInv' /\ GateStopsHops' /\ StopOrder'
  BY DEF IInv, StopInv, GateStopsHops, StopOrder
<1>10. QED
  BY <1>4, <1>5, <1>7, <1>8, <1>9 DEF IInv

\* handleMessage returns without having sent anything.
LEMMA SettleStep ==
  ASSUME IInv, loop \in {"process", "run", "route"}, Settle,
         UNCHANGED <<main, gone, held, inbound, approved, blocked, panicked, sent,
                     accepted>>,
         known' \in {known, known \cup {cur.user}}
  PROVE  IInv'
<1> USE DEF Settle
<1>1. cur \in Message /\ Current = {Key(cur)} /\ Current' = {}
  BY DEF IInv, TypeOK, LoopInv, Current
<1>2. Waiting' = Waiting /\ Queued' = Queued
  BY DEF Waiting, Queued
<1>3. NothingLost'
  BY <1>1, <1>2 DEF IInv, NothingLost
<1>4. TypeOK'
  BY <1>1 DEF IInv, TypeOK, NothingLost, Message
<1>5. Travelling' \subseteq Travelling
  BY <1>2 DEF Travelling
<1>6. ChainInv' /\ HeldInv'
  BY <1>5 DEF IInv, ChainInv, HeldInv
<1>7. LoopInv' /\ StopInv' /\ GateStopsHops' /\ StopOrder'
  BY DEF IInv, LoopInv, StopInv, GateStopsHops, StopOrder
<1>8. QED
  BY <1>3, <1>4, <1>6, <1>7 DEF IInv

\* The checks are passed: the gate lets no message without a user through.
LEMMA RunStep ==
  ASSUME IInv, Process, Run
  PROVE  IInv' \/ Settle
<1> SUFFICES ASSUME ~Settle
             PROVE  IInv'
  OBVIOUS
<1> USE DEF Process, Run
<1>1. /\ RequireApproval => cur.user \in approved \cup Roots
      /\ loop = "process" /\ loop' = "run"
      /\ UNCHANGED <<main, gone, held, inbound, cur, target, approved, blocked, panicked,
                     sent, hist>>
      /\ known' \in {known, known \cup {cur.user}}
  OBVIOUS
<1>2. NothingLost' /\ HeldInv' /\ ChainInv'
  BY <1>1, NoMessageMoves DEF IInv, ChainInv
<1>3. cur \in Message /\ cur \in Travelling
  BY <1>1 DEF IInv, TypeOK, LoopInv, Travelling
<1>4. TypeOK'
  BY <1>1, <1>3 DEF IInv, TypeOK, Message
<1>5. GateStopsHops'
  BY <1>1, <1>3 DEF IInv, ChainInv, GateStopsHops, Message
<1>6. LoopInv' /\ StopInv' /\ StopOrder'
  BY <1>1 DEF IInv, LoopInv, StopInv, StopOrder
<1>7. QED
  BY <1>2, <1>4, <1>5, <1>6 DEF IInv

\* The provider has returned a result that is to be routed.
LEMMA RouteStep ==
  ASSUME IInv, loop = "run", loop' = "route", target' \in {cur.src} \cup Redirects,
         target' \in AgentSources => cur.hops < MaxHops,
         UNCHANGED <<main, gone, held, inbound, cur, users, panicked, sent, hist>>
  PROVE  IInv'
<1>1. NothingLost' /\ HeldInv' /\ ChainInv'
  BY NoMessageMoves DEF IInv, ChainInv
<1>2. cur \in Message /\ target' \in Origins
  BY DEF IInv, TypeOK, LoopInv, Message
<1>3. TypeOK' /\ LoopInv'
  BY <1>2 DEF IInv, TypeOK, LoopInv
<1>4. StopInv' /\ GateStopsHops' /\ StopOrder'
  BY DEF IInv, StopInv, GateStopsHops, StopOrder
<1>5. QED
  BY <1>1, <1>3, <1>4 DEF IInv

\* The reply enters the channel as the next message of its chain.
LEMMA ForwardStep ==
  ASSUME IInv, loop = "route", Len(inbound) < InboundCap,
         NEW m \in Message, m.id = cur.id, m.hops = cur.hops + 1, m.user = NoUser,
         inbound' = Append(inbound, m), accepted' = accepted \cup {Key(m)}, Settle,
         UNCHANGED <<main, gone, held, users, panicked, sent>>
  PROVE  IInv'
<1>1. /\ cur \in Message /\ cur \in Travelling
      /\ Current = {Key(cur)} /\ Current' = {}
      /\ settled' = settled \cup {Key(cur)}
  BY DEF IInv, TypeOK, LoopInv, Current, Travelling, Settle
<1>2. /\ Key(m) = <<cur.id, cur.hops + 1>> /\ Key(m) \in Keys
      /\ Key(cur) = <<cur.id, cur.hops>> /\ Key(cur) \in Keys
  BY <1>1, KeyType DEF Key
<1>3. cur.hops \in Nat
  BY <1>1 DEF Message
<1>4. /\ accepted = settled \cup {Key(cur)} \cup Queued /\ Key(cur) \notin settled
      /\ Key(cur) \notin Queued /\ settled \cap Queued = {}
  BY <1>1 DEF IInv, NothingLost
<1>5. \A k \in accepted : k[1] = cur.id => k[2] <= cur.hops
  BY <1>1 DEF IInv, ChainInv
<1>6. Key(m) \notin accepted
  BY <1>2, <1>3, <1>5
<1>7. /\ inbound' \in Seq(Message) /\ Len(inbound') <= InboundCap
      /\ Waiting' = Waiting \cup {m} /\ Queued' = Queued \cup {Key(m)}
      /\ \A i, j \in 1..Len(inbound') : Key(inbound'[i]) = Key(inbound'[j]) => i = j
  BY <1>4, <1>6, Enters DEF IInv
<1>8. NothingLost'
  BY <1>1, <1>4, <1>6, <1>7 DEF NothingLost
<1>9. TypeOK'
  BY <1>1, <1>2, <1>4, <1>7 DEF IInv, TypeOK, Settle
<1>10. HeldInv'
  BY <1>2, <1>4 DEF IInv, HeldInv
<1>11. ASSUME NEW n \in Waiting
       PROVE  n.id # cur.id
  <2>1. n \in Message /\ Key(n) \in Queued /\ n \in Travelling
    BY WaitingType DEF IInv, Travelling
  <2>2. Key(n) = <<n.id, n.hops>> /\ n.hops \in Nat
    BY <2>1 DEF Key, Message
  <2>3. n.id = cur.id => n.hops <= cur.hops
    BY <1>4, <1>5, <2>1, <2>2
  <2>4. n.id = cur.id => cur.hops <= n.hops
    BY <1>2, <1>4, <2>1 DEF IInv, ChainInv
  <2>5. n.id = cur.id => n.hops = cur.hops
    BY <1>3, <2>2, <2>3, <2>4
  <2>6. n.id = cur.id => Key(n) = Key(cur)
    BY <2>5 DEF Key
  <2>7. QED
    BY <1>4, <2>1, <2>6
<1>12. ChainInv'
  <2>1. Travelling' = Waiting \cup {m}
    BY <1>7 DEF Travelling, Settle
  <2>2. ASSUME NEW n \in Waiting
        PROVE  /\ \A k \in accepted' : k[1] = n.id => k[2] <= n.hops
               /\ n.hops > 0 => n.user = NoUser
    <3>1. /\ n \in Travelling /\ n.id # cur.id
          /\ \A k \in accepted : k[1] = n.id => k[2] <= n.hops
          /\ n.hops > 0 => n.user = NoUser
      BY <1>11 DEF IInv, ChainInv, Travelling
    <3>2. Key(m)[1] = cur.id
      BY <1>2
    <3>3. QED
      BY <3>1, <3>2
  <2>3. \A k \in accepted : k \in Keys
    BY DEF IInv, TypeOK
  <2>4. \A k \in accepted' : k[1] = m.id => k[2] <= m.hops
    BY <1>2, <1>3, <1>5, <2>3 DEF Keys
  <2>5. QED
    BY <2>1, <2>2, <2>4 DEF IInv, ChainInv
<1>13. LoopInv' /\ StopInv' /\ GateStopsHops' /\ StopOrder'
  BY DEF IInv, LoopInv, StopInv, GateStopsHops, StopOrder, Settle
<1>14. QED
  BY <1>8, <1>9, <1>10, <1>12, <1>13 DEF IInv

\* An agent source sends the reply: a message from the loop, without a user.
LEMMA AgentMessage ==
  ASSUME IInv, AgentSend
  PROVE  \E m \in Message :
           /\ m.id = cur.id /\ m.hops = cur.hops + 1 /\ m.user = NoUser
           /\ inbound' = Append(inbound, m) /\ accepted' = accepted \cup {Key(m)}
<1> DEFINE m == [id |-> cur.id, from |-> Loop, src |-> target, user |-> MetadataSender,
                 reply |-> TRUE, depth |-> MetadataDepth + 1, hops |-> cur.hops + 1]
<1>1. cur \in Message /\ cur.hops < MaxHops /\ target \in Origins
  BY DEF AgentSend, IInv, TypeOK, LoopInv
<1>2. m \in Message
  BY <1>1 DEF Message, MetadataSender, MetadataDepth
<1>3. m.id = cur.id /\ m.hops = cur.hops + 1 /\ m.user = NoUser
  BY DEF MetadataSender
<1>4. inbound' = Append(inbound, m) /\ accepted' = accepted \cup {Key(m)}
  BY DEF AgentSend
<1> HIDE DEF m
<1>5. QED
  BY <1>2, <1>3, <1>4

\* Every step of the loop preserves the invariant.
LEMMA LoopLemma ==
  ASSUME IInv, LoopStep
  PROVE  IInv'
<1>1. CASE Receive
  BY <1>1, ReceiveStep
<1>2. CASE LoopEnds
  <2>1. NothingLost' /\ HeldInv' /\ ChainInv'
    BY <1>2, NoMessageMoves DEF LoopEnds, IInv, ChainInv
  <2>2. TypeOK' /\ LoopInv' /\ StopInv' /\ GateStopsHops' /\ StopOrder'
    BY <1>2 DEF LoopEnds, IInv, TypeOK, LoopInv, StopInv, GateStopsHops, StopOrder
  <2>3. QED
    BY <2>1, <2>2 DEF IInv
<1>3. CASE Process
  BY <1>3, RunStep, SettleStep DEF Process, Run
<1>4. CASE ProviderFails
  BY <1>4, SettleStep DEF ProviderFails
<1>5. CASE ProviderReturns
  BY <1>5, SettleStep, RouteStep DEF ProviderReturns
<1>6. CASE Deliver
  BY <1>6, SettleStep DEF Deliver
<1>7. CASE AgentSend
  BY <1>7, AgentMessage, ForwardStep DEF AgentSend
<1>8. CASE AgentSendPanics
  BY <1>8, PanicStep
<1>9. CASE AgentSendCancelled
  BY <1>9, SettleStep DEF AgentSendCancelled
<1>10. QED
  BY <1>1, <1>2, <1>3, <1>4, <1>5, <1>6, <1>7, <1>8, <1>9 DEF LoopStep

\* Every step preserves the invariant.
LEMMA NextStep ==
  ASSUME IInv, [Next]_vars
  PROVE  IInv'
<1>1. CASE ProducerStep
  BY <1>1, EmitStep, PushStep, PanicStep, ReturnStep DEF ProducerStep
<1>2. CASE MainStep
  BY <1>2, MainLemma
<1>3. CASE LoopStep
  BY <1>3, LoopLemma
<1>4. ASSUME NEW u \in Users, UserTool(u)
      PROVE  IInv'
  <2>1. NoUser \notin approved'
    BY <1>4 DEF UserTool, IInv, ChainInv
  <2>2. NothingLost' /\ HeldInv' /\ ChainInv'
    BY <1>4, <2>1, NoMessageMoves DEF UserTool
  <2>3. TypeOK'
    BY <1>4 DEF UserTool, IInv, TypeOK
  <2>4. LoopInv' /\ StopInv' /\ GateStopsHops' /\ StopOrder'
    BY <1>4 DEF UserTool, IInv, LoopInv, StopInv, GateStopsHops, StopOrder
  <2>5. QED
    BY <2>2, <2>3, <2>4 DEF IInv
<1>5. CASE UNCHANGED vars
  <2>1. NothingLost' /\ HeldInv' /\ ChainInv'
    BY <1>5, NoMessageMoves DEF IInv, ChainInv
  <2>2. TypeOK' /\ LoopInv' /\ StopInv' /\ GateStopsHops' /\ StopOrder'
    BY <1>5 DEF IInv, TypeOK, LoopInv, StopInv, GateStopsHops, StopOrder
  <2>3. QED
    BY <2>1, <2>2 DEF IInv
<1>6. QED
  BY <1>1, <1>2, <1>3, <1>4, <1>5 DEF Next

\* The invariant holds in every reachable state.
LEMMA Inductive == Spec => []IInv
BY InitIInv, NextStep, PTL DEF Spec

-----------------------------------------------------------------------------
\* Channel, loop, table and goroutines keep their shape, the channel its capacity, for
\* any number of goroutines and messages.
THEOREM TypeCorrect == Spec => []TypeOK
<1>1. IInv => TypeOK
  BY DEF IInv
<1>2. QED
  BY <1>1, Inductive, PTL

\* A message that entered the channel is queued, or being handled, or has been handled,
\* and only one of these, however the goroutines interleave.
THEOREM NoneIsLost == Spec => []NothingLost
<1>1. IInv => NothingLost
  BY DEF IInv
<1>2. QED
  BY <1>1, Inductive, PTL

\* With the gate on, no agent runs for a message of another agent.
THEOREM GateStopsAgents == Spec => []GateStopsHops
<1>1. IInv => GateStopsHops
  BY DEF IInv
<1>2. QED
  BY <1>1, Inductive, PTL

\* The tick and the drain of Stop never send on the closed channel.
THEOREM StopKeepsOrder == Spec => []StopOrder
<1>1. IInv => StopOrder
  BY DEF IInv
<1>2. QED
  BY <1>1, Inductive, PTL

-----------------------------------------------------------------------------
(* Every step of Pipeline is one of Intake, or leaves its variables alone. *)

\* A key is not None, so that a message at hand is a job.
LEMMA JobOfCur ==
  ASSUME TypeOK
  PROVE  Current = (IF Job = None THEN {} ELSE {Job}) /\ (Job = None <=> cur = None)
BY KeyType DEF TypeOK, Current, Job

\* A key that was not accepted is new to Intake.
LEMMA NewKeyIsFresh ==
  ASSUME IInv, NEW k \in Keys, k \notin accepted
  PROVE  Serving!Fresh(k)
<1>1. k \notin settled /\ k \notin Current /\ k \notin Queued
  BY DEF IInv, NothingLost
<1>2. k # Job
  BY <1>1, JobOfCur DEF IInv
<1>3. Len(Keyed(inbound)) = Len(inbound)
      /\ \A i \in 1..Len(inbound) : Keyed(inbound)[i] = Key(inbound[i])
  BY KeyedSeq DEF IInv, TypeOK
<1>4. QED
  BY <1>1, <1>2, <1>3 DEF Serving!Fresh, Queued

\* While Intake is open, the channel has room for a key just when it has for a message.
LEMMA RoomIsRoom ==
  ASSUME TypeOK
  PROVE  Len(Keyed(inbound)) = Len(inbound)
BY KeyedSeq DEF TypeOK

\* A message that enters the channel is a job that Intake accepts.
LEMMA PushAccepts ==
  ASSUME IInv, NEW p \in Producers, Push(p)
  PROVE  Serving!Accept(Key(held[p])) /\ Key(held[p]) \in Keys
<1>1. held[p] \in Message /\ inbound \in Seq(Message)
  BY DEF Push, IInv, TypeOK
<1>2. Key(held[p]) \in Keys /\ Key(held[p]) \notin accepted
  BY <1>1, KeyType DEF Push, IInv, HeldInv, Key
<1>3. Serving!Fresh(Key(held[p]))
  BY <1>2, NewKeyIsFresh
<1>4. Keyed(inbound') = Append(Keyed(inbound), Key(held[p]))
  BY <1>1, KeyedAppend DEF Push
<1>5. Phase = "open" /\ Phase' = Phase /\ Job' = Job /\ settled' = settled
  BY DEF Push, Phase, Job
<1>6. Len(Keyed(inbound)) < InboundCap
  BY RoomIsRoom DEF Push, IInv
<1>7. QED
  BY <1>2, <1>3, <1>4, <1>5, <1>6 DEF Serving!Accept

\* The loop serves the job that has waited longest.
LEMMA ReceiveServes ==
  ASSUME IInv, Receive
  PROVE  Serving!Serve
<1>1. inbound \in Seq(Message) /\ inbound # <<>> /\ cur = None
  BY DEF Receive, IInv, TypeOK, LoopInv
<1>2. Head(inbound) \in Message /\ Head(inbound) # None
  BY <1>1, HeadTailProperties
<1>3. /\ Keyed(inbound) # <<>> /\ Head(Keyed(inbound)) = Key(Head(inbound))
      /\ Keyed(inbound') = Tail(Keyed(inbound))
  BY <1>1, KeyedTail DEF Receive
<1>4. Job = None /\ Job' = Key(Head(inbound))
  BY <1>1, <1>2 DEF Receive, Job
<1>5. Phase # "over" /\ Phase' = Phase /\ settled' = settled
  BY DEF Receive, Phase
<1>6. QED
  BY <1>3, <1>4, <1>5 DEF Serving!Serve

\* The end of handleMessage finishes the job.
LEMMA SettleFinishes ==
  ASSUME IInv, loop \in {"process", "run", "route"}, Settle, ~Ended,
         UNCHANGED <<main, inbound, panicked>>
  PROVE  Serving!Finish
<1>1. cur # None /\ cur' = None /\ settled' = settled \cup {Key(cur)}
  BY DEF IInv, LoopInv, Settle
<1>2. Job = Key(cur) /\ Job # None /\ Job' = None
  BY <1>1, JobOfCur DEF Job, IInv
<1>3. Phase # "over" /\ Phase' = Phase /\ Keyed(inbound)' = Keyed(inbound)
  BY DEF Phase, Keyed
<1>4. QED
  BY <1>1, <1>2, <1>3 DEF Serving!Finish

\* An agent's reply ends one job and leaves another.
LEMMA AgentForwards ==
  ASSUME IInv, AgentSend
  PROVE  \E k \in Keys : Serving!Forward(k)
<1>1. PICK m \in Message :
        /\ m.id = cur.id /\ m.hops = cur.hops + 1
        /\ inbound' = Append(inbound, m)
  BY AgentMessage
<1>2. inbound \in Seq(Message) /\ cur \in Message /\ cur \in Travelling
  BY DEF AgentSend, IInv, TypeOK, LoopInv, Travelling
<1>3. Key(m) \in Keys /\ Key(m) = <<cur.id, cur.hops + 1>>
  BY <1>1, KeyType DEF Key
<1>4. Key(m) \notin accepted
  <2>1. cur.hops \in Nat
    BY <1>2 DEF Message
  <2>2. QED
    BY <1>2, <1>3, <2>1 DEF IInv, ChainInv
<1>5. Serving!Fresh(Key(m))
  BY <1>3, <1>4, NewKeyIsFresh
<1>6. Keyed(inbound') = Append(Keyed(inbound), Key(m))
  BY <1>1, <1>2, KeyedAppend
<1>7. Len(Keyed(inbound)) < InboundCap
  BY RoomIsRoom DEF AgentSend, IInv
<1>8. Phase = "open" /\ Phase' = Phase
  BY DEF AgentSend, Phase
<1>9. Job = Key(cur) /\ Job # None /\ Job' = None /\ settled' = settled \cup {Key(cur)}
  BY <1>2, JobOfCur DEF AgentSend, Settle, Job, IInv
<1>10. QED
  BY <1>3, <1>5, <1>6, <1>7, <1>8, <1>9 DEF Serving!Forward

\* A step that leaves messages and phase alone is a stutter of Intake.
LEMMA Stutters ==
  ASSUME UNCHANGED <<main, inbound, cur, panicked, settled>>
  PROVE  UNCHANGED Serving!vars
BY DEF Serving!vars, Keyed, Job, Phase

\* The end of the process ends Intake, the closing of the channel closes it.
LEMMA PhaseMoves ==
  ASSUME UNCHANGED <<inbound, cur, settled>>,
         \/ ~Ended /\ Ended'
         \/ ~Ended /\ ~Ended' /\ Closed' # Closed /\ Closed'
         \/ Ended' = Ended /\ Closed' = Closed
  PROVE  [Serving!Next]_(Serving!vars)
<1>1. Keyed(inbound)' = Keyed(inbound) /\ Job' = Job
  BY DEF Keyed, Job
<1>2. CASE ~Ended /\ Ended'
  BY <1>1, <1>2 DEF Phase, Serving!Next, Serving!End
<1>3. CASE ~Ended /\ ~Ended' /\ Closed' # Closed /\ Closed'
  BY <1>1, <1>3 DEF Phase, Serving!Next, Serving!Close
<1>4. CASE Ended' = Ended /\ Closed' = Closed
  BY <1>1, <1>4 DEF Phase, Serving!vars
<1>5. QED
  BY <1>2, <1>3, <1>4

\* A step of the main goroutine moves Intake's phase, or nothing of it.
LEMMA MainMoves ==
  ASSUME MainStep
  PROVE  [Serving!Next]_(Serving!vars)
<1>1. UNCHANGED <<inbound, cur, settled, panicked>> /\ ~Ended
  BY DEF MainStep, MainTo, StartTelepath, StartSchedule, StartLoop, StartFails, Signal,
         StopSchedule, StopTelepath, Cancel, Exit
<1>2. \/ main' = "exited" /\ main # "exited"
      \/ main = "draining" /\ main' = "closed"
      \/ main = "closed" /\ main' = "cancelled"
      \/ /\ main \notin {"closed", "cancelled"}
         /\ main' \notin {"closed", "cancelled", "exited"}
  BY DEF MainStep, MainTo, StartTelepath, StartSchedule, StartLoop, StartFails, Signal,
         StopSchedule, StopTelepath, Cancel, Exit
<1>3. QED
  BY <1>1, <1>2, PhaseMoves

\* A panic ends the process.
LEMMA PanicEnds ==
  ASSUME (\E p \in Producers : Panic(p)) \/ AgentSendPanics
  PROVE  [Serving!Next]_(Serving!vars)
<1>1. UNCHANGED <<inbound, cur, settled, main>> /\ ~Ended /\ panicked' # None
  BY DEF Panic, AgentSendPanics
<1>2. QED
  BY <1>1, PhaseMoves

\* Every step of Pipeline is a step of Intake or a stutter.
LEMMA NextServes ==
  ASSUME IInv, [Next]_vars
  PROVE  [Serving!Next]_(Serving!vars)
<1>1. ASSUME NEW p \in Producers, Emit(p) \/ ReaderEnds(p) \/ TickEnds
      PROVE  UNCHANGED Serving!vars
  BY <1>1, Stutters DEF Emit, ReaderEnds, TickEnds
<1>2. ASSUME NEW p \in Producers, Push(p)
      PROVE  Serving!Next
  BY <1>2, PushAccepts DEF Serving!Next
<1>3. CASE Receive
  BY <1>3, ReceiveServes DEF Serving!Next
<1>4. CASE AgentSend
  BY <1>4, AgentForwards DEF Serving!Next
<1>5. CASE LoopEnds
  BY <1>5, Stutters DEF LoopEnds
<1>6. CASE Process \/ ProviderFails \/ ProviderReturns \/ Deliver \/ AgentSendCancelled
  <2>1. /\ loop \in {"process", "run", "route"} /\ ~Ended
        /\ UNCHANGED <<main, inbound, panicked>>
        /\ Settle \/ UNCHANGED <<cur, settled>>
    BY <1>6 DEF Process, Run, ProviderFails, ProviderReturns, Deliver, AgentSendCancelled
  <2>2. CASE Settle
    BY <2>1, <2>2, SettleFinishes DEF Serving!Next
  <2>3. CASE UNCHANGED <<cur, settled>>
    BY <2>1, <2>3, Stutters
  <2>4. QED
    BY <2>1, <2>2, <2>3
<1>7. CASE (\E p \in Producers : Panic(p)) \/ AgentSendPanics
  BY <1>7, PanicEnds
<1>8. CASE MainStep
  BY <1>8, MainMoves
<1>9. CASE (\E u \in Users : UserTool(u)) \/ UNCHANGED vars
  BY <1>9, Stutters DEF UserTool
<1>10. QED
  <2>1. CASE ProducerStep
    BY <2>1, <1>1, <1>2, <1>7 DEF ProducerStep
  <2>2. CASE LoopStep
    BY <2>2, <1>3, <1>4, <1>5, <1>6, <1>7 DEF LoopStep
  <2>3. QED
    BY <2>1, <2>2, <1>8, <1>9 DEF Next

\* Nothing is queued, served or done at first.
LEMMA InitServes == Init => Serving!Init
<1> SUFFICES ASSUME Init PROVE Serving!Init
  OBVIOUS
<1>1. <<>> \in Seq(Message) /\ Len(<<>>) = 0 /\ inbound = <<>>
  BY EmptySeq DEF Init
<1>2. Keyed(inbound) \in Seq(Keys) /\ Len(Keyed(inbound)) = 0
  BY <1>1, KeyedSeq
<1>3. Keyed(inbound) = <<>>
  BY <1>2, EmptySeq
<1>4. QED
  BY <1>3 DEF Init, Serving!Init, Job, Phase

\* Pipeline implements Intake, the queue that one server works off in order, each job
\* once, none taken in after the channel was closed, for any set of producers.
THEOREM PipelineIsIntake == Spec => ImplementsIntake
<1>1. IInv /\ [Next]_vars => [Serving!Next]_(Serving!vars)
  BY NextServes
<1>2. QED
  BY <1>1, InitServes, Inductive, PTL DEF Spec, ImplementsIntake, Serving!Spec

=============================================================================
