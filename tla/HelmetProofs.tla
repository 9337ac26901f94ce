---------------------------- MODULE HelmetProofs ----------------------------
(***************************************************************************)
(* The properties of Helmet, for any number of processes, users, channels, *)
(* powers and messages.                                                    *)
(***************************************************************************)
EXTENDS Helmet, TLAPS

\* Steps from which on a loop's user has a row, its channel a chat.
Known    == {"track", "channel", "global", "gate", "load", "run", "save", "usage"}
UserRead == {"chat", "newchat"} \cup Known

\* A loop at work has a message, and what it has read or created is in the tables.
LoopInv ==
  \A l \in Loops : LET m == loops[l] IN
    /\ m.at # "idle" => m.user \in Users /\ m.ch \in Channels
    /\ m.at \in UserRead => users[m.user] # None
    /\ m.at \in Known => m.chat # 0

\* A user that is fit while l waits for the row has been fit; so has one whose row, as
\* l has read it, will pass the gate.
FitInv ==
  /\ \A l \in Loops : LET m == loops[l] IN
       /\ m.at \in {"schema", "user", "newuser"} =>
            (Fit(l, m.user, users[m.user]) => l \in fit)
       /\ m.at \in {"chat", "newchat", "track", "channel", "global", "gate"} =>
            m.row # None /\ ~m.row.blocked /\ (Approved(l, m.user, m.row) => l \in fit)
  /\ RunsFit

\* Before the first query a message has no powers.
Unqueried(l) ==
  loops[l].at \in {"schema", "user", "newuser", "chat", "newchat", "track", "channel"} =>
    loops[l].powers = {}

\* Between the two queries, the powers at hand were held, and those of the channel
\* whose grants stayed are among them.
Between(l) ==
  At(l, "global") =>
    /\ loops[l].powers \subseteq held[l].ever
    /\ PowersOf(Own(grants, l)) \subseteq held[l].ever
    /\ held[l].always \subseteq Own(grants, l)
    /\ \A r \in held[l].always : r[2] = loops[l].ch => r[3] \in loops[l].powers

PowerInv == (\A l \in Loops : Unqueried(l) /\ Between(l)) /\ PowersHeld

\* A loop that works on a channel alone goes on from all that was saved for it.
MemoryInv ==
  /\ \A i \in Chats : i > ids => sessions[i] = 0
  /\ \A l \in Loops : loops[l].at \in {"run", "save"} /\ loops[l].ch \notin excused =>
       /\ loops[l].base = saves[loops[l].ch]
       /\ \A m \in Loops : ~Working(m, l)
  /\ MemoryKept

IInv == TypeOK /\ LoopInv /\ OneChat /\ FitInv /\ PowerInv /\ MemoryInv

-----------------------------------------------------------------------------
USE ConstantsAssumption
    DEF At, Put, Goto, Ends, tables, hist, vars, Idle, Nothing, NewUser, Chats, Row, Rows,
        Steps, Known, UserRead

\* The record of a loop that has not queried its grants has its type.
LEMMA NothingHeld == Nothing \in Holding
BY DEF Holding

\* Init satisfies the invariant.
LEMMA InitIInv == Init => IInv
BY NothingHeld DEF Init, IInv, TypeOK, Message, LoopInv, OneChat, FitInv, RunsFit,
   PowerInv, Unqueried, Between, PowersHeld, MemoryInv, MemoryKept

\* A message that is rejected, dies or comes to its end without a trace.
LEMMA EndsStep ==
  ASSUME IInv, NEW l \in Loops, Ends(l), UNCHANGED <<tables, taken, fit, saves, excused>>,
         held' \in {held, [held EXCEPT ![l] = Nothing]}
  PROVE  IInv'
<1> DEFINE new == Idle
<1>1. loops[l] \in Message
  BY DEF IInv, TypeOK
<1>2. new \in Message
  BY <1>1 DEF Message
<1>3. loops' \in [Loops -> Message]
  BY <1>2 DEF IInv, TypeOK
<1>4. TypeOK'
  <2>1. held' \in [Loops -> Holding]
    BY NothingHeld DEF IInv, TypeOK
  <2>2. QED
    BY <1>3, <2>1 DEF IInv, TypeOK, LoopInv
<1>5. LoopInv'
  BY DEF IInv, TypeOK, Message, LoopInv
<1>6. OneChat'
  BY DEF IInv, TypeOK, Message, LoopInv, OneChat
<1>7. FitInv'
  BY DEF IInv, TypeOK, Message, LoopInv, FitInv, RunsFit, Fit, Approved
<1>8. PowerInv'
  BY DEF IInv, TypeOK, Message, Holding, LoopInv, PowerInv, Unqueried, Between,
     PowersHeld, PowersOf, Own
<1>9. MemoryInv'
  BY DEF IInv, TypeOK, Message, LoopInv, OneChat, MemoryInv, MemoryKept, Working
<1>10. QED
  BY <1>4, <1>5, <1>6, <1>7, <1>8, <1>9 DEF IInv

\* A message is received.
LEMMA TakeStep ==
  ASSUME IInv, NEW l \in Loops, NEW u \in Users, NEW ch \in Channels, Take(l, u, ch)
  PROVE  IInv'
<1> USE DEF Take
<1> DEFINE new == [Idle EXCEPT !.at = "schema", !.user = u, !.ch = ch]
<1>1. loops[l] \in Message
  BY DEF IInv, TypeOK
<1>2. new \in Message
  BY <1>1 DEF Message
<1>3. loops' \in [Loops -> Message]
  BY <1>2 DEF IInv, TypeOK
<1>4. TypeOK'
  <2>1. held' \in [Loops -> Holding]
    BY NothingHeld DEF IInv, TypeOK
  <2>2. QED
    BY <1>3, <2>1 DEF IInv, TypeOK
<1>5. LoopInv'
  BY DEF IInv, TypeOK, Message, LoopInv
<1>6. OneChat'
  BY DEF IInv, TypeOK, Message, LoopInv, OneChat
<1>7. FitInv'
  BY DEF IInv, TypeOK, Message, LoopInv, FitInv, RunsFit, Fit, Approved
<1>8. PowerInv'
  BY DEF IInv, TypeOK, Message, Holding, LoopInv, PowerInv, Unqueried, Between,
     PowersHeld, PowersOf, Own
<1>9. MemoryInv'
  BY DEF IInv, TypeOK, Message, LoopInv, OneChat, MemoryInv, MemoryKept, Working
<1>10. QED
  BY <1>4, <1>5, <1>6, <1>7, <1>8, <1>9 DEF IInv

\* A step that leaves a loop with what it has, and the tables but for tracked channels.
LEMMA GotoStep ==
  ASSUME IInv, NEW l \in Loops, NEW step \in Steps, Goto(l, step),
         \/ At(l, "schema") /\ step = "user"
         \/ At(l, "user") /\ step = "newuser" /\ users[loops[l].user] = None
         \/ At(l, "chat") /\ step = "newchat"
         \/ At(l, "track") /\ step = "channel"
         \/ At(l, "save") /\ step = "usage",
         UNCHANGED <<users, chats, ids, grants, sessions, usage, taken, hist>>,
         \/ tracked' = tracked \/ tracked' = tracked \cup usage
         \/ At(l, "track") /\ tracked' = tracked \cup {<<loops[l].user, loops[l].ch>>}
  PROVE  IInv'
<1> DEFINE new == [loops[l] EXCEPT !.at = step]
<1>1. loops[l] \in Message
  BY DEF IInv, TypeOK
<1>2. new \in Message
  BY <1>1 DEF Message
<1>3. loops' \in [Loops -> Message]
  BY <1>2 DEF IInv, TypeOK
<1>4. TypeOK'
  <2>1. At(l, "track") => /\ loops[l].user \in Users /\ users[loops[l].user] # None
                         /\ loops[l].ch \in Channels /\ chats[loops[l].ch] # 0
    BY DEF IInv, LoopInv, OneChat
  <2>2. tracked' \subseteq Users \X Channels
    BY <2>1 DEF IInv, TypeOK
  <2>3. ASSUME NEW u \in Users, NEW ch \in Channels, <<u, ch>> \in tracked' \cup usage
        PROVE  users[u] # None /\ chats[ch] # 0
    <3>1. CASE <<u, ch>> \in tracked \cup usage
      BY <3>1 DEF IInv, TypeOK
    <3>2. CASE At(l, "track") /\ <<u, ch>> = <<loops[l].user, loops[l].ch>>
      BY <2>1, <3>2
    <3>3. QED
      BY <2>3, <3>1, <3>2
  <2>4. QED
    BY <1>3, <2>2, <2>3 DEF IInv, TypeOK
<1>5. LoopInv'
  BY DEF IInv, TypeOK, Message, LoopInv
<1>6. OneChat'
  BY DEF IInv, TypeOK, Message, LoopInv, OneChat
<1>7. FitInv'
  BY DEF IInv, TypeOK, Message, LoopInv, FitInv, RunsFit, Fit, Approved
<1>8. PowerInv'
  <2>1. /\ loops'[l].at = step /\ loops'[l].powers = loops[l].powers
        /\ step \notin {"global", "gate"} /\ (step = "usage" \/ loops[l].powers = {})
    <3>1. loops'[l] = new /\ new.at = step /\ new.powers = loops[l].powers
      BY <1>1 DEF Goto, Put, IInv, TypeOK, Message
    <3>2. QED
      BY <3>1 DEF IInv, PowerInv, Unqueried
  <2>2. \A k \in Loops : k # l => loops'[k] = loops[k]
    BY DEF Goto, Put, IInv, TypeOK
  <2>3. ASSUME NEW k \in Loops
        PROVE  (Unqueried(k) /\ Between(k))'
    <3>1. CASE k = l
      BY <2>1, <3>1 DEF Unqueried, Between
    <3>2. CASE k # l
      BY <2>2, <3>2 DEF IInv, PowerInv, Unqueried, Between, Own
    <3>3. QED
      BY <3>1, <3>2
  <2>4. PowersHeld'
    <3>1. ASSUME NEW k \in Loops, At(k, "gate")'
          PROVE  k # l /\ loops'[k] = loops[k] /\ held'[k] = held[k]
      BY <2>1, <2>2, <3>1
    <3>2. QED
      BY <3>1 DEF IInv, PowerInv, PowersHeld
  <2>5. QED
    BY <2>3, <2>4 DEF PowerInv
<1>9. MemoryInv'
  BY DEF IInv, TypeOK, Message, LoopInv, OneChat, MemoryInv, MemoryKept, Working
<1>10. QED
  BY <1>4, <1>5, <1>6, <1>7, <1>8, <1>9 DEF IInv

\* A row is read: if it passes the gate, its user is fit now.
LEMMA RowStep ==
  ASSUME IInv, NEW l \in Loops, NEW row \in Row, At(l, "user"),
         row = users[loops[l].user], ~row.blocked,
         Put(l, [loops[l] EXCEPT !.at = "chat", !.row = row]), UNCHANGED <<tables,
         taken, hist>>
  PROVE  IInv'
<1> DEFINE new == [loops[l] EXCEPT !.at = "chat", !.row = row]
<1>1. loops[l] \in Message
  BY DEF IInv, TypeOK
<1>2. new \in Message
  BY <1>1 DEF Message
<1>3. loops' \in [Loops -> Message]
  BY <1>2 DEF IInv, TypeOK
<1>4. TypeOK'
  BY <1>3 DEF IInv, TypeOK, LoopInv
<1>5. LoopInv'
  BY DEF IInv, TypeOK, Message, LoopInv
<1>6. OneChat'
  BY DEF IInv, TypeOK, Message, LoopInv, OneChat
<1>7. FitInv'
  BY DEF IInv, TypeOK, Message, LoopInv, FitInv, RunsFit, Fit, Approved
<1>8. PowerInv'
  BY DEF IInv, TypeOK, Message, Holding, LoopInv, PowerInv, Unqueried, Between,
     PowersHeld, PowersOf, Own
<1>9. MemoryInv'
  BY DEF IInv, TypeOK, Message, LoopInv, OneChat, MemoryInv, MemoryKept, Working
<1>10. QED
  BY <1>4, <1>5, <1>6, <1>7, <1>8, <1>9 DEF IInv

\* A row is created: it makes nobody fit who was not.
LEMMA NewUserStep ==
  ASSUME IInv, NEW l \in Loops, At(l, "newuser"), users[loops[l].user] = None,
         users' = [users EXCEPT ![loops[l].user] = NewUser],
         Put(l, [loops[l] EXCEPT !.at = "chat", !.row = NewUser]),
         UNCHANGED <<chats, ids, grants, sessions, tracked, usage, taken, hist>>
  PROVE  IInv'
<1>0. loops[l].user \in Users /\ NewUser \in Row
  BY DEF IInv, TypeOK, Message, LoopInv
<1> DEFINE new == [loops[l] EXCEPT !.at = "chat", !.row = NewUser]
<1>1. loops[l] \in Message
  BY DEF IInv, TypeOK
<1>2. new \in Message
  BY <1>1 DEF Message
<1>3. loops' \in [Loops -> Message]
  BY <1>2 DEF IInv, TypeOK
<1>4. TypeOK'
  BY <1>3 DEF IInv, TypeOK, LoopInv
<1>5. LoopInv'
  <2>1. \A u \in Users : users[u] # None => users'[u] # None
    BY <1>0 DEF IInv, TypeOK
  <2>2. users'[loops[l].user] # None
    BY <1>0 DEF IInv, TypeOK
  <2>3. QED
    BY <1>0, <2>1, <2>2 DEF IInv, TypeOK, Message, LoopInv
<1>6. OneChat'
  BY DEF IInv, TypeOK, Message, LoopInv, OneChat
<1>7. FitInv'
  <2>1. \A k \in Loops, u \in Users : Fit(k, u, users'[u]) => Fit(k, u, users[u])
    BY <1>0 DEF IInv, TypeOK, Fit, Approved
  <2>2. Approved(l, loops[l].user, NewUser) => Fit(l, loops[l].user, users[loops[l].user])
    BY <1>0 DEF Fit, Approved
  <2>3. QED
    <3>1. loops'[l] = new /\ \A k \in Loops : k # l => loops'[k] = loops[k]
      BY DEF IInv, TypeOK
    <3>2. new.at = "chat" /\ new.user = loops[l].user /\ new.row = NewUser
      BY <1>1 DEF Message
    <3>3. NewUser # None /\ ~NewUser.blocked
      BY <1>0
    <3>4. Approved(l, loops[l].user, NewUser) => l \in fit
      BY <2>2 DEF IInv, FitInv
    <3>5. \A k \in Loops : loops[k].at # "idle" => loops[k].user \in Users
      BY DEF IInv, LoopInv
    <3>6. QED
      BY <2>1, <3>1, <3>2, <3>3, <3>4, <3>5 DEF IInv, FitInv, RunsFit
<1>8. PowerInv'
  BY DEF IInv, TypeOK, Message, Holding, LoopInv, PowerInv, Unqueried, Between,
     PowersHeld, PowersOf, Own
<1>9. MemoryInv'
  BY DEF IInv, TypeOK, Message, LoopInv, OneChat, MemoryInv, MemoryKept, Working
<1>10. QED
  BY <1>4, <1>5, <1>6, <1>7, <1>8, <1>9 DEF IInv

\* A chat is found.
LEMMA ChatStep ==
  ASSUME IInv, NEW l \in Loops, At(l, "chat"), chats[loops[l].ch] # 0,
         Put(l, [loops[l] EXCEPT !.at = "track", !.chat = chats[loops[l].ch]]),
         UNCHANGED <<tables, taken, hist>>
  PROVE  IInv'
<1>0. chats[loops[l].ch] \in Chats
  BY DEF IInv, TypeOK, Message, LoopInv
<1> DEFINE new == [loops[l] EXCEPT !.at = "track", !.chat = chats[loops[l].ch]]
<1>1. loops[l] \in Message
  BY DEF IInv, TypeOK
<1>2. new \in Message
  BY <1>0, <1>1 DEF Message
<1>3. loops' \in [Loops -> Message]
  BY <1>2 DEF IInv, TypeOK
<1>4. TypeOK'
  BY <1>3 DEF IInv, TypeOK, LoopInv
<1>5. LoopInv'
  BY DEF IInv, TypeOK, Message, LoopInv
<1>6. OneChat'
  BY DEF IInv, TypeOK, Message, LoopInv, OneChat
<1>7. FitInv'
  BY DEF IInv, TypeOK, Message, LoopInv, FitInv, RunsFit, Fit, Approved
<1>8. PowerInv'
  BY DEF IInv, TypeOK, Message, Holding, LoopInv, PowerInv, Unqueried, Between,
     PowersHeld, PowersOf, Own
<1>9. MemoryInv'
  BY DEF IInv, TypeOK, Message, LoopInv, OneChat, MemoryInv, MemoryKept, Working
<1>10. QED
  BY <1>4, <1>5, <1>6, <1>7, <1>8, <1>9 DEF IInv

\* A chat is created: with an id that no other channel has.
LEMMA NewChatStep ==
  ASSUME IInv, NEW l \in Loops, At(l, "newchat"), chats[loops[l].ch] = 0, ids < MaxMessages,
         ids' = ids + 1, chats' = [chats EXCEPT ![loops[l].ch] = ids + 1],
         Put(l, [loops[l] EXCEPT !.at = "track", !.chat = ids + 1]),
         UNCHANGED <<users, grants, sessions, tracked, usage, taken, hist>>
  PROVE  IInv'
<1>0. ids + 1 \in Chats
  BY DEF IInv, TypeOK, Message, LoopInv
<1> DEFINE new == [loops[l] EXCEPT !.at = "track", !.chat = ids + 1]
<1>1. loops[l] \in Message
  BY DEF IInv, TypeOK
<1>2. new \in Message
  BY <1>0, <1>1 DEF Message
<1>3. loops' \in [Loops -> Message]
  BY <1>2 DEF IInv, TypeOK
<1>4. TypeOK'
  BY <1>3 DEF IInv, TypeOK, LoopInv
<1>5. LoopInv'
  BY DEF IInv, TypeOK, Message, LoopInv
<1>6. OneChat'
  BY DEF IInv, TypeOK, Message, LoopInv, OneChat
<1>7. FitInv'
  BY DEF IInv, TypeOK, Message, LoopInv, FitInv, RunsFit, Fit, Approved
<1>8. PowerInv'
  BY DEF IInv, TypeOK, Message, Holding, LoopInv, PowerInv, Unqueried, Between,
     PowersHeld, PowersOf, Own
<1>9. MemoryInv'
  BY DEF IInv, TypeOK, Message, LoopInv, OneChat, MemoryInv, MemoryKept, Working
<1>10. QED
  BY <1>4, <1>5, <1>6, <1>7, <1>8, <1>9 DEF IInv

\* The first query.
LEMMA QueryChannelStep ==
  ASSUME IInv, NEW l \in Loops, QueryChannel(l)
  PROVE  IInv'
<1> USE DEF QueryChannel
<1> DEFINE new == [loops[l] EXCEPT !.at = "global",
                                       !.powers = Granted(grants, loops[l].user,
                                       loops[l].ch)]
<1>1. loops[l] \in Message
  BY DEF IInv, TypeOK
<1>2. new \in Message
  BY <1>1 DEF Message, Granted
<1>3. loops' \in [Loops -> Message]
  BY <1>2 DEF IInv, TypeOK
<1>4. TypeOK'
  <2>1. [always |-> Own(grants, l), ever |-> PowersOf(Own(grants, l)),
         failed |-> FALSE] \in Holding
    BY DEF IInv, TypeOK, Holding, Own, PowersOf
  <2>2. held' \in [Loops -> Holding]
    BY <2>1 DEF IInv, TypeOK
  <2>3. QED
    BY <1>3, <2>2 DEF IInv, TypeOK
<1>5. LoopInv'
  BY DEF IInv, TypeOK, Message, LoopInv
<1>6. OneChat'
  BY DEF IInv, TypeOK, Message, LoopInv, OneChat
<1>7. FitInv'
  BY DEF IInv, TypeOK, Message, LoopInv, FitInv, RunsFit, Fit, Approved
<1>8. PowerInv'
  <2>1. loops[l].powers = {} /\ held'[l].always = Own(grants, l)
         /\ held'[l].ever = PowersOf(Own(grants, l)) /\ loops'[l] = new
    BY DEF IInv, TypeOK, PowerInv, Unqueried
  <2>2. Granted(grants, loops[l].user, loops[l].ch) \subseteq PowersOf(Own(grants, l))
    <3> SUFFICES ASSUME NEW p \in Powers, <<loops[l].user, loops[l].ch, p>> \in grants
                 PROVE  \E r \in Own(grants, l) : r[3] = p
      BY DEF Granted, PowersOf
    <3>1. <<loops[l].user, loops[l].ch, p>> \in Own(grants, l)
      BY DEF Own
    <3>2. QED
      BY <3>1
  <2>3. new.powers = Granted(grants, loops[l].user, loops[l].ch)
    BY <1>1 DEF Message
  <2>4. ASSUME NEW r \in Own(grants, l), r[2] = loops[l].ch
        PROVE  r[3] \in new.powers
    <3>1. r = <<loops[l].user, loops[l].ch, r[3]>> /\ r \in grants /\ r[3] \in Powers
      BY <2>4 DEF IInv, TypeOK, Own
    <3>2. QED
      BY <2>3, <3>1 DEF Granted
  <2>5. loops'[l].at = "global" /\ loops'[l].powers = new.powers
         /\ loops'[l].user = loops[l].user /\ loops'[l].ch = loops[l].ch
    <3> DEFINE p == Granted(grants, loops[l].user, loops[l].ch)
    <3> HIDE DEF p
    <3>1. new = [loops[l] EXCEPT !.at = "global", !.powers = p]
      BY DEF p
    <3>2. loops'[l] = new
      BY <2>1
    <3> HIDE DEF new
    <3>3. QED
      BY <1>1, <3>1, <3>2 DEF Message
  <2>6. \A k \in Loops : k # l => loops'[k] = loops[k] /\ held'[k] = held[k]
    BY DEF IInv, TypeOK
  <2>7. Between(l)'
    <3>1. /\ (Own(grants, l))' = Own(grants, l)
          /\ (PowersOf(Own(grants, l)))' = PowersOf(Own(grants, l))
      BY <2>5 DEF Own, PowersOf
    <3>2. QED
      BY <2>1, <2>2, <2>3, <2>4, <2>5, <3>1 DEF Between
  <2>8. \A k \in Loops : k # l => Between(k)'
    BY <2>6 DEF IInv, PowerInv, Between, Own, PowersOf
  <2>9. \A k \in Loops : Unqueried(k)'
    BY <2>5, <2>6 DEF IInv, PowerInv, Unqueried
  <2>10. PowersHeld'
    BY <2>5, <2>6 DEF IInv, PowerInv, PowersHeld, PowersOf
  <2>11. QED
    BY <2>7, <2>8, <2>9, <2>10 DEF PowerInv
<1>9. MemoryInv'
  BY DEF IInv, TypeOK, Message, LoopInv, OneChat, MemoryInv, MemoryKept, Working
<1>10. QED
  BY <1>4, <1>5, <1>6, <1>7, <1>8, <1>9 DEF IInv

\* The first query fails.
LEMMA QueryChannelFailsStep ==
  ASSUME IInv, NEW l \in Loops, QueryChannelFails(l)
  PROVE  IInv'
<1> USE DEF QueryChannelFails
<1> DEFINE new == [loops[l] EXCEPT !.at = "gate"]
<1>1. loops[l] \in Message
  BY DEF IInv, TypeOK
<1>2. new \in Message
  BY <1>1 DEF Message
<1>3. loops' \in [Loops -> Message]
  BY <1>2 DEF IInv, TypeOK
<1>4. TypeOK'
  <2>1. held[l] \in Holding
    BY DEF IInv, TypeOK
  <2>2. [held[l] EXCEPT !.failed = TRUE] \in Holding
    BY <2>1 DEF Holding
  <2>3. held' \in [Loops -> Holding]
    BY <2>2 DEF IInv, TypeOK
  <2>4. QED
    BY <1>3, <2>3 DEF IInv, TypeOK
<1>5. LoopInv'
  BY DEF IInv, TypeOK, Message, LoopInv
<1>6. OneChat'
  BY DEF IInv, TypeOK, Message, LoopInv, OneChat
<1>7. FitInv'
  BY DEF IInv, TypeOK, Message, LoopInv, FitInv, RunsFit, Fit, Approved
<1>8. PowerInv'
  BY DEF IInv, TypeOK, Message, Holding, LoopInv, PowerInv, Unqueried, Between,
     PowersHeld, PowersOf, Own
<1>9. MemoryInv'
  BY DEF IInv, TypeOK, Message, LoopInv, OneChat, MemoryInv, MemoryKept, Working
<1>10. QED
  BY <1>4, <1>5, <1>6, <1>7, <1>8, <1>9 DEF IInv

\* The second query: a grant that stayed was seen by one of the two.
LEMMA ResolveStep ==
  ASSUME IInv, NEW l \in Loops, At(l, "global"), NEW names \in SUBSET Powers,
         names = loops[l].powers \cup Granted(grants, loops[l].user, Global),
         Resolve(l, names),
         UNCHANGED <<tables, taken, hist>>
  PROVE  IInv'
<1> USE DEF Resolve
<1> DEFINE new == [loops[l] EXCEPT !.at = "gate",
      !.powers = (names \cup (IF loops[l].user \in Roots[l] THEN {RootPower} ELSE {})) \cap Loadable]
<1>1. loops[l] \in Message
  BY DEF IInv, TypeOK
<1>2. new \in Message
  BY <1>1 DEF Message
<1>3. loops' \in [Loops -> Message]
  BY <1>2 DEF IInv, TypeOK
<1>4. TypeOK'
  BY <1>3 DEF IInv, TypeOK, LoopInv
<1>5. LoopInv'
  BY DEF IInv, TypeOK, Message, LoopInv
<1>6. OneChat'
  BY DEF IInv, TypeOK, Message, LoopInv, OneChat
<1>7. FitInv'
  BY DEF IInv, TypeOK, Message, LoopInv, FitInv, RunsFit, Fit, Approved
<1>8. PowerInv'
  <2>1. loops'[l] = new /\ \A k \in Loops : k # l => loops'[k] = loops[k]
    BY DEF IInv, TypeOK
  <2>2. Granted(grants, loops[l].user, Global) \subseteq PowersOf(Own(grants, l))
    <3> SUFFICES ASSUME NEW p \in Powers, <<loops[l].user, Global, p>> \in grants
                 PROVE  \E r \in Own(grants, l) : r[3] = p
      BY DEF Granted, PowersOf
    <3>1. <<loops[l].user, Global, p>> \in Own(grants, l)
      BY DEF Own
    <3>2. QED
      BY <3>1
  <2>3. names \subseteq held[l].ever
    BY <2>2 DEF IInv, PowerInv, Unqueried, Between
  <2>4. ASSUME NEW r \in held[l].always
        PROVE  r[3] \in names
    <3>1. r \in grants /\ r[1] = loops[l].user /\ r[2] \in {loops[l].ch, Global}
      BY DEF IInv, PowerInv, Unqueried, Between, Own
    <3>2. CASE r[2] = loops[l].ch
      BY <3>2 DEF IInv, PowerInv, Unqueried, Between
    <3>3. CASE r[2] = Global
      BY <3>1, <3>3 DEF IInv, TypeOK, Granted
    <3>4. QED
      BY <3>1, <3>2, <3>3
  <2>5. QED
    BY <2>1, <2>3, <2>4 DEF IInv, PowerInv, Unqueried, Between, PowersHeld, PowersOf,
       Own
<1>9. MemoryInv'
  BY DEF IInv, TypeOK, Message, LoopInv, OneChat, MemoryInv, MemoryKept, Working
<1>10. QED
  BY <1>4, <1>5, <1>6, <1>7, <1>8, <1>9 DEF IInv

\* The second query fails.
LEMMA QueryGlobalFailsStep ==
  ASSUME IInv, NEW l \in Loops, QueryGlobalFails(l)
  PROVE  IInv'
<1> USE DEF QueryGlobalFails, Resolve
<1> DEFINE new == [loops[l] EXCEPT !.at = "gate",
      !.powers = (loops[l].powers \cup (IF loops[l].user \in Roots[l] THEN {RootPower} ELSE {})) \cap Loadable]
<1>1. loops[l] \in Message
  BY DEF IInv, TypeOK
<1>2. new \in Message
  BY <1>1 DEF Message
<1>3. loops' \in [Loops -> Message]
  BY <1>2 DEF IInv, TypeOK
<1>4. TypeOK'
  <2>1. held[l] \in Holding
    BY DEF IInv, TypeOK
  <2>2. [held[l] EXCEPT !.failed = TRUE] \in Holding
    BY <2>1 DEF Holding
  <2>3. held' \in [Loops -> Holding]
    BY <2>2 DEF IInv, TypeOK
  <2>4. QED
    BY <1>3, <2>3 DEF IInv, TypeOK
<1>5. LoopInv'
  BY DEF IInv, TypeOK, Message, LoopInv
<1>6. OneChat'
  BY DEF IInv, TypeOK, Message, LoopInv, OneChat
<1>7. FitInv'
  BY DEF IInv, TypeOK, Message, LoopInv, FitInv, RunsFit, Fit, Approved
<1>8. PowerInv'
  BY DEF IInv, TypeOK, Message, Holding, LoopInv, PowerInv, Unqueried, Between,
     PowersHeld, PowersOf, Own
<1>9. MemoryInv'
  BY DEF IInv, TypeOK, Message, LoopInv, OneChat, MemoryInv, MemoryKept, Working
<1>10. QED
  BY <1>4, <1>5, <1>6, <1>7, <1>8, <1>9 DEF IInv

\* The gate lets a message through.
LEMMA GateStep ==
  ASSUME IInv, NEW l \in Loops, At(l, "gate"), Approved(l, loops[l].user, loops[l].row),
         Put(l, [loops[l] EXCEPT !.at = "load", !.row = None]),
         held' = [held EXCEPT ![l] = Nothing], UNCHANGED <<tables, taken, fit, saves,
         excused>>
  PROVE  IInv'
<1> DEFINE new == [loops[l] EXCEPT !.at = "load", !.row = None]
<1>1. loops[l] \in Message
  BY DEF IInv, TypeOK
<1>2. new \in Message
  BY <1>1 DEF Message
<1>3. loops' \in [Loops -> Message]
  BY <1>2 DEF IInv, TypeOK
<1>4. TypeOK'
  <2>1. held' \in [Loops -> Holding]
    BY NothingHeld DEF IInv, TypeOK
  <2>2. QED
    BY <1>3, <2>1 DEF IInv, TypeOK
<1>5. LoopInv'
  BY DEF IInv, TypeOK, Message, LoopInv
<1>6. OneChat'
  BY DEF IInv, TypeOK, Message, LoopInv, OneChat
<1>7. FitInv'
  BY DEF IInv, TypeOK, Message, LoopInv, FitInv, RunsFit, Fit, Approved
<1>8. PowerInv'
  BY DEF IInv, TypeOK, Message, Holding, LoopInv, PowerInv, Unqueried, Between,
     PowersHeld, PowersOf, Own
<1>9. MemoryInv'
  BY DEF IInv, TypeOK, Message, LoopInv, OneChat, MemoryInv, MemoryKept, Working
<1>10. QED
  BY <1>4, <1>5, <1>6, <1>7, <1>8, <1>9 DEF IInv

\* A session is loaded, or taken for none: alone on the channel, or excused.
LEMMA LoadStep ==
  ASSUME IInv, NEW l \in Loops, At(l, "load"), NEW base \in Nat,
         Put(l, [loops[l] EXCEPT !.at = "run", !.base = base]),
         UNCHANGED <<tables, taken, fit, held, saves>>,
         excused' = excused \cup {loops[l].ch} \/
           (excused' = excused /\ base = sessions[loops[l].chat] /\ ~(\E m \in Loops : Working(m, l)))
  PROVE  IInv'
<1> DEFINE new == [loops[l] EXCEPT !.at = "run", !.base = base]
<1>1. loops[l] \in Message
  BY DEF IInv, TypeOK
<1>2. new \in Message
  BY <1>1 DEF Message
<1>3. loops' \in [Loops -> Message]
  BY <1>2 DEF IInv, TypeOK
<1>4. TypeOK'
  BY <1>3 DEF IInv, TypeOK, LoopInv
<1>5. LoopInv'
  BY DEF IInv, TypeOK, Message, LoopInv
<1>6. OneChat'
  BY DEF IInv, TypeOK, Message, LoopInv, OneChat
<1>7. FitInv'
  BY DEF IInv, TypeOK, Message, LoopInv, FitInv, RunsFit, Fit, Approved
<1>8. PowerInv'
  BY DEF IInv, TypeOK, Message, Holding, LoopInv, PowerInv, Unqueried, Between,
     PowersHeld, PowersOf, Own
<1>9. MemoryInv'
  BY DEF IInv, TypeOK, Message, LoopInv, OneChat, MemoryInv, MemoryKept, Working
<1>10. QED
  BY <1>4, <1>5, <1>6, <1>7, <1>8, <1>9 DEF IInv

\* The provider returns.
LEMMA ReturnStep ==
  ASSUME IInv, NEW l \in Loops, At(l, "run"), NEW step \in {"save", "usage"},
         Put(l, [loops[l] EXCEPT !.at = step, !.powers = {}]), UNCHANGED <<tables,
         taken, hist>>
  PROVE  IInv'
<1> DEFINE new == [loops[l] EXCEPT !.at = step, !.powers = {}]
<1>1. loops[l] \in Message
  BY DEF IInv, TypeOK
<1>2. new \in Message
  BY <1>1 DEF Message
<1>3. loops' \in [Loops -> Message]
  BY <1>2 DEF IInv, TypeOK
<1>4. TypeOK'
  BY <1>3 DEF IInv, TypeOK, LoopInv
<1>5. LoopInv'
  BY DEF IInv, TypeOK, Message, LoopInv
<1>6. OneChat'
  BY DEF IInv, TypeOK, Message, LoopInv, OneChat
<1>7. FitInv'
  BY DEF IInv, TypeOK, Message, LoopInv, FitInv, RunsFit, Fit, Approved
<1>8. PowerInv'
  BY DEF IInv, TypeOK, Message, Holding, LoopInv, PowerInv, Unqueried, Between,
     PowersHeld, PowersOf, Own
<1>9. MemoryInv'
  BY DEF IInv, TypeOK, Message, LoopInv, OneChat, MemoryInv, MemoryKept, Working
<1>10. QED
  BY <1>4, <1>5, <1>6, <1>7, <1>8, <1>9 DEF IInv

\* A session is saved: nobody else works on the channel, or it is excused.
LEMMA SaveStep ==
  ASSUME IInv, NEW l \in Loops, SaveSession(l)
  PROVE  IInv'
<1> USE DEF SaveSession
<1>0. loops[l].ch \in Channels /\ loops[l].base \in Nat
  BY DEF IInv, TypeOK, Message, LoopInv
<1> DEFINE new == [loops[l] EXCEPT !.at = "usage"]
<1>1. loops[l] \in Message
  BY DEF IInv, TypeOK
<1>2. new \in Message
  BY <1>1 DEF Message
<1>3. loops' \in [Loops -> Message]
  BY <1>2 DEF IInv, TypeOK
<1>4. TypeOK'
  <2>1. loops[l].base + 1 \in Nat /\ sessions \in [Chats -> Nat]
    BY <1>0 DEF IInv, TypeOK
  <2>4. sessions' \in [Chats -> Nat]
    BY <2>1
  <2>2. saves' \in [Channels -> Nat]
    BY <1>0 DEF IInv, TypeOK
  <2>3. QED
    BY <1>3, <2>4, <2>2 DEF IInv, TypeOK
<1>5. LoopInv'
  BY DEF IInv, TypeOK, Message, LoopInv
<1>6. OneChat'
  BY DEF IInv, TypeOK, Message, LoopInv, OneChat
<1>7. FitInv'
  BY DEF IInv, TypeOK, Message, LoopInv, FitInv, RunsFit, Fit, Approved
<1>8. PowerInv'
  BY DEF IInv, TypeOK, Message, Holding, LoopInv, PowerInv, Unqueried, Between,
     PowersHeld, PowersOf, Own
<1>9. MemoryInv'
  BY DEF IInv, TypeOK, Message, LoopInv, OneChat, MemoryInv, MemoryKept, Working
<1>10. QED
  BY <1>4, <1>5, <1>6, <1>7, <1>8, <1>9 DEF IInv

\* A session is emptied: the channel is excused, and others have sessions of their own.
LEMMA EmptyStep ==
  ASSUME IInv, NEW l \in Loops, SaveNoSession(l)
  PROVE  IInv'
<1> USE DEF SaveNoSession, Excuse
<1>0. loops[l].ch \in Channels /\ loops[l].base \in Nat
  BY DEF IInv, TypeOK, Message, LoopInv
<1> DEFINE new == [loops[l] EXCEPT !.at = "usage"]
<1>1. loops[l] \in Message
  BY DEF IInv, TypeOK
<1>2. new \in Message
  BY <1>1 DEF Message
<1>3. loops' \in [Loops -> Message]
  BY <1>2 DEF IInv, TypeOK
<1>4. TypeOK'
  <2>1. sessions' \in [Chats -> Nat] /\ excused' \subseteq Channels
    BY <1>0 DEF IInv, TypeOK
  <2>2. QED
    BY <1>3, <2>1 DEF IInv, TypeOK
<1>5. LoopInv'
  BY DEF IInv, TypeOK, Message, LoopInv
<1>6. OneChat'
  BY DEF IInv, TypeOK, Message, LoopInv, OneChat
<1>7. FitInv'
  BY DEF IInv, TypeOK, Message, LoopInv, FitInv, RunsFit, Fit, Approved
<1>8. PowerInv'
  BY DEF IInv, TypeOK, Message, Holding, LoopInv, PowerInv, Unqueried, Between,
     PowersHeld, PowersOf, Own
<1>9. MemoryInv'
  BY DEF IInv, TypeOK, Message, LoopInv, OneChat, MemoryInv, MemoryKept, Working
<1>10. QED
  BY <1>4, <1>5, <1>6, <1>7, <1>8, <1>9 DEF IInv

\* Usage is recorded.
LEMMA UsageStep ==
  ASSUME IInv, NEW l \in Loops, RecordUsage(l)
  PROVE  IInv'
<1> USE DEF RecordUsage
<1> DEFINE new == Idle
<1>1. loops[l] \in Message
  BY DEF IInv, TypeOK
<1>2. new \in Message
  BY <1>1 DEF Message
<1>3. loops' \in [Loops -> Message]
  BY <1>2 DEF IInv, TypeOK
<1>4. TypeOK'
  <2>1. loops[l].user \in Users /\ loops[l].ch \in Channels
    BY DEF IInv, LoopInv
  <2>2. \A u \in Users, ch \in Channels :
         <<u, ch>> \in tracked' \cup usage' => users'[u] # None /\ chats'[ch] # 0
    BY DEF IInv, TypeOK, LoopInv, OneChat
  <2>3. usage' \subseteq Users \X Channels
    BY <2>1 DEF IInv, TypeOK
  <2>4. QED
    BY <1>3, <2>2, <2>3 DEF IInv, TypeOK
<1>5. LoopInv'
  BY DEF IInv, TypeOK, Message, LoopInv
<1>6. OneChat'
  BY DEF IInv, TypeOK, Message, LoopInv, OneChat
<1>7. FitInv'
  BY DEF IInv, TypeOK, Message, LoopInv, FitInv, RunsFit, Fit, Approved
<1>8. PowerInv'
  BY DEF IInv, TypeOK, Message, Holding, LoopInv, PowerInv, Unqueried, Between,
     PowersHeld, PowersOf, Own
<1>9. MemoryInv'
  BY DEF IInv, TypeOK, Message, LoopInv, OneChat, MemoryInv, MemoryKept, Working
<1>10. QED
  BY <1>4, <1>5, <1>6, <1>7, <1>8, <1>9 DEF IInv

\* An administrator's decision on a user.
LEMMA SetUserStep ==
  ASSUME IInv, NEW u \in Users, NEW row \in Row, users[u] # None, SetUser(u, row)
  PROVE  IInv'
<1> USE DEF SetUser
<1>1. TypeOK'
  BY DEF IInv, TypeOK, LoopInv
<1>2. LoopInv'
  BY DEF IInv, TypeOK, Message, LoopInv
<1>3. OneChat'
  BY DEF IInv, TypeOK, Message, LoopInv, OneChat
<1>4. FitInv'
  BY DEF IInv, TypeOK, Message, LoopInv, FitInv, RunsFit, Fit, Approved
<1>5. PowerInv'
  BY DEF IInv, TypeOK, Message, Holding, LoopInv, PowerInv, Unqueried, Between,
     PowersHeld, PowersOf, Own
<1>6. MemoryInv'
  BY DEF IInv, TypeOK, Message, LoopInv, OneChat, MemoryInv, MemoryKept, Working
<1>7. QED
  BY <1>1, <1>2, <1>3, <1>4, <1>5, <1>6 DEF IInv

\* A grant or a revoke.
LEMMA SetGrantsStep ==
  ASSUME IInv, NEW table \in SUBSET Rows, SetGrants(table)
  PROVE  IInv'
<1> USE DEF SetGrants
<1>1. TypeOK'
  <2>1. ASSUME NEW k \in Loops
        PROVE  [held[k] EXCEPT !.always = @ \cap table,
                               !.ever = @ \cup PowersOf(Own(table, k))] \in Holding
    <3>1. held[k] \in Holding
      BY DEF IInv, TypeOK
    <3>2. PowersOf(Own(table, k)) \subseteq Powers
      BY DEF PowersOf, Own
    <3>3. QED
      BY <3>1, <3>2 DEF Holding
  <2>2. held' \in [Loops -> Holding]
    BY <2>1 DEF IInv, TypeOK
  <2>3. QED
    BY <2>2 DEF IInv, TypeOK
<1>2. LoopInv'
  BY DEF IInv, TypeOK, Message, LoopInv
<1>3. OneChat'
  BY DEF IInv, TypeOK, Message, LoopInv, OneChat
<1>4. FitInv'
  BY DEF IInv, TypeOK, Message, LoopInv, FitInv, RunsFit, Fit, Approved
<1>5. PowerInv'
  <2>1. ASSUME NEW k \in Loops, At(k, "global")
        PROVE  Between(k)'
    <3>1. held[k] \in Holding
      BY DEF IInv, TypeOK
    <3>2. held'[k].always = held[k].always \cap table
           /\ held'[k].ever = held[k].ever \cup PowersOf(Own(table, k))
      BY <2>1, <3>1 DEF Holding
    <3>3. held[k].always \cap table \subseteq Own(table, k)
      BY <2>1 DEF IInv, PowerInv, Between, Own
    <3>4. (Own(grants, k))' = Own(table, k)
      BY DEF Own
    <3>5. QED
      BY <2>1, <3>2, <3>3, <3>4 DEF IInv, PowerInv, Between, PowersOf
  <2>2. \A k \in Loops : ~At(k, "global") => Between(k)' /\ held'[k] = held[k]
    BY DEF IInv, TypeOK, Between
  <2>3. PowersHeld'
    BY <2>2 DEF IInv, PowerInv, PowersHeld, PowersOf
  <2>4. QED
    BY <2>1, <2>2, <2>3 DEF IInv, PowerInv, Unqueried
<1>6. MemoryInv'
  BY DEF IInv, TypeOK, Message, LoopInv, OneChat, MemoryInv, MemoryKept, Working
<1>7. QED
  BY <1>1, <1>2, <1>3, <1>4, <1>5, <1>6 DEF IInv

-----------------------------------------------------------------------------
\* Every step of Next is one of those above.
LEMMA LoopStep ==
  ASSUME IInv, NEW l \in Loops, HelmetStep(l) \/ RunStep(l) \/ Die(l)
  PROVE  IInv'
<1>1. CASE EnsureSchema(l)
  BY <1>1, GotoStep DEF EnsureSchema
<1>2. CASE Reject(l)
  BY <1>2, EndsStep DEF Reject
<1>3. CASE ReadUser(l)
  <2> DEFINE row == users[loops[l].user]
  <2>1. row \in Row \cup {None}
    BY <1>3 DEF ReadUser, IInv, TypeOK, LoopInv
  <2>2. CASE row = None /\ Goto(l, "newuser")
    BY <1>3, <2>2, GotoStep DEF ReadUser
  <2>3. CASE row # None /\ row.blocked /\ Ends(l)
    BY <1>3, <2>3, EndsStep DEF ReadUser
  <2>4. CASE row # None /\ ~row.blocked /\ Put(l, [loops[l] EXCEPT !.at = "chat", !.row = row])
    <3>1. row \in Row /\ At(l, "user") /\ UNCHANGED <<tables, taken, hist>>
      BY <1>3, <2>1, <2>4 DEF ReadUser
    <3> HIDE DEF row
    <3>2. QED
      BY <2>4, <3>1, RowStep DEF row
  <2>5. QED
    BY <1>3, <2>2, <2>3, <2>4 DEF ReadUser
<1>4. CASE InsertUser(l)
  BY <1>4, NewUserStep, EndsStep DEF InsertUser
<1>5. CASE ReadChat(l)
  BY <1>5, GotoStep, ChatStep DEF ReadChat
<1>6. CASE InsertChat(l)
  BY <1>6, NewChatStep, EndsStep DEF InsertChat
<1>7. CASE Track(l)
  BY <1>7, GotoStep DEF Track
<1>8. CASE QueryChannel(l) \/ QueryChannelFails(l) \/ QueryGlobalFails(l)
  BY <1>8, QueryChannelStep, QueryChannelFailsStep, QueryGlobalFailsStep
<1>9. CASE QueryGlobal(l)
  <2> DEFINE names == loops[l].powers \cup Granted(grants, loops[l].user, Global)
  <2>1. names \in SUBSET Powers
    BY <1>9 DEF QueryGlobal, Granted, IInv, TypeOK, Message, Holding, PowerInv, Between
  <2>2. QED
    BY <1>9, <2>1, ResolveStep DEF QueryGlobal
<1>10. CASE Gate(l)
  BY <1>10, GateStep, EndsStep DEF Gate
<1>11. CASE LoadSession(l)
  <2> DEFINE base == sessions[loops[l].chat]
  <2>1. base \in Nat
    BY <1>11 DEF LoadSession, IInv, TypeOK, Message, LoopInv
  <2>2. QED
    BY <1>11, <2>1, LoadStep DEF LoadSession, Excuse
<1>12. CASE LoadSessionFails(l)
  <2>1. /\ loops[l].base \in Nat
        /\ loops' = [loops EXCEPT ![l] = [loops[l] EXCEPT !.at = "run",
                                                          !.base = loops[l].base]]
    BY <1>12 DEF LoadSessionFails, IInv, TypeOK, Message
  <2>2. QED
    BY <1>12, <2>1, LoadStep DEF LoadSessionFails, Excuse
<1>13. CASE ProviderFails(l)
  BY <1>13, EndsStep DEF ProviderFails
<1>14. CASE ProviderReturns(l)
  BY <1>14, ReturnStep DEF ProviderReturns
<1>15. CASE SaveSession(l) \/ SaveNoSession(l) \/ RecordUsage(l)
  BY <1>15, SaveStep, EmptyStep, UsageStep
<1>16. CASE SaveSessionFails(l)
  BY <1>16, GotoStep DEF SaveSessionFails
<1>17. CASE Die(l)
  BY <1>17, EndsStep DEF Die
<1>18. QED
  BY <1>1, <1>2, <1>3, <1>4, <1>5, <1>6, <1>7, <1>8, <1>9, <1>10, <1>11, <1>12, <1>13,
     <1>14, <1>15, <1>16, <1>17 DEF HelmetStep, RunStep

\* Every step preserves the invariant.
LEMMA NextStep ==
  ASSUME IInv, [Next]_vars
  PROVE  IInv'
<1>1. ASSUME NEW l \in Loops, NEW u \in Users, NEW ch \in Channels, Take(l, u, ch)
      PROVE  IInv'
  BY <1>1, TakeStep
<1>2. ASSUME NEW l \in Loops, HelmetStep(l) \/ RunStep(l) \/ Die(l)
      PROVE  IInv'
  BY <1>2, LoopStep
<1>3. ASSUME NEW u \in Users, UserApprove(u) \/ UserBlock(u) \/ UserUnblock(u)
      PROVE  IInv'
  <2>1. users[u] \in Row
    BY <1>3 DEF UserApprove, UserBlock, UserUnblock, IInv, TypeOK
  <2>2. /\ [users[u] EXCEPT !.approved = TRUE] \in Row
        /\ [users[u] EXCEPT !.blocked = TRUE] \in Row
        /\ [users[u] EXCEPT !.blocked = FALSE] \in Row
    BY <2>1
  <2>3. QED
    BY <1>3, <2>2, SetUserStep DEF UserApprove, UserBlock, UserUnblock
<1>4. ASSUME NEW r \in Rows, AssignPower(r) \/ RevokePower(r)
      PROVE  IInv'
  <2>1. grants \cup {r} \in SUBSET Rows /\ grants \ {r} \in SUBSET Rows
    BY DEF IInv, TypeOK
  <2>2. QED
    BY <1>4, <2>1, SetGrantsStep DEF AssignPower, RevokePower
<1>5. CASE UNCHANGED vars
  BY <1>5 DEF IInv, TypeOK, LoopInv, OneChat, FitInv, RunsFit, Fit, Approved, PowerInv,
              Unqueried, Between, PowersHeld, PowersOf, Own, MemoryInv, MemoryKept,
              Working
<1>6. QED
  BY <1>1, <1>2, <1>3, <1>4, <1>5 DEF Next, ToolStep

\* The invariant holds in every reachable state.
LEMMA Inductive == Spec => []IInv
BY InitIInv, NextStep, PTL DEF Spec

-----------------------------------------------------------------------------
\* The tables and loops keep their shape, and whoever is tracked or charged exists,
\* for any number of processes.
THEOREM TypeCorrect == Spec => []TypeOK
<1>1. IInv => TypeOK
  BY DEF IInv
<1>2. QED
  BY <1>1, Inductive, PTL

\* However many processes race to create a channel's chat, they use the same one.
THEOREM ChatsAreOne == Spec => []OneChat
<1>1. IInv => OneChat
  BY DEF IInv
<1>2. QED
  BY <1>1, Inductive, PTL

\* No run for a user who was never fit for it since the message was received.
THEOREM RunsAreFit == Spec => []RunsFit
<1>1. IInv => RunsFit
  BY DEF IInv, FitInv
<1>2. QED
  BY <1>1, Inductive, PTL

\* No power that was never held, and none missed whose grant stayed, however grants
\* change between the two queries.
THEOREM PowersAreHeld == Spec => []PowersHeld
<1>1. IInv => PowersHeld
  BY DEF IInv, PowerInv
<1>2. QED
  BY <1>1, Inductive, PTL

\* A conversation remembers all that was saved, unless two worked on it at once or
\* its session could not be read.
THEOREM MemoryIsKept == Spec => []MemoryKept
<1>1. IInv => MemoryKept
  BY DEF IInv, MemoryInv
<1>2. QED
  BY <1>1, Inductive, PTL

\* No message changes what an administrator has decided of a user.
THEOREM DecisionsAreKept == Spec => DecisionsStay
<1> DEFINE Decided ==
      \A u \in Users : users[u] # None /\ users'[u] # users[u] => UNCHANGED loops
<1>1. ASSUME IInv, [Next]_vars
      PROVE  [Decided]_vars
  <2>1. ASSUME NEW l \in Loops, InsertUser(l)
        PROVE  Decided
    BY <1>1, <2>1 DEF InsertUser, IInv, TypeOK
  <2>2. ASSUME NEW l \in Loops, HelmetStep(l) \/ RunStep(l) \/ Die(l), ~InsertUser(l)
        PROVE  users' = users
    BY <2>2 DEF HelmetStep, RunStep, Die, EnsureSchema, Reject, ReadUser, ReadChat,
                InsertChat, Track, QueryChannel, QueryChannelFails, QueryGlobal,
                QueryGlobalFails, Gate, LoadSession, LoadSessionFails, ProviderFails,
                ProviderReturns, SaveSession, SaveNoSession, SaveSessionFails, RecordUsage
  <2>3. ASSUME NEW l \in Loops, NEW u \in Users, NEW ch \in Channels, Take(l, u, ch)
        PROVE  users' = users
    BY <2>3 DEF Take
  <2>4. ASSUME ToolStep
        PROVE  UNCHANGED loops
    BY <2>4 DEF ToolStep, UserApprove, UserBlock, UserUnblock, SetUser, AssignPower,
                RevokePower, SetGrants
  <2>5. QED
    BY <1>1, <2>1, <2>2, <2>3, <2>4 DEF Next
<1>2. QED
  BY <1>1, Inductive, PTL DEF Spec, DecisionsStay

=============================================================================
