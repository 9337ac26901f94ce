------------------------------ MODULE Telegram ------------------------------
(***************************************************************************)
(* sources/telegram: the goroutine that polls updates, the buffer and the  *)
(* debounce timer of each chat, the goroutines their timers start, the     *)
(* queue of files that wait for a text, and Stop. A message in the inbound *)
(* channel counts as delivered; Pipeline says what becomes of it.          *)
(*                                                                         *)
(* A section of code under buffersMu or fileQueueMu is one step. A timer   *)
(* that has fired is a goroutine that waits for buffersMu, and can no      *)
(* longer be stopped.                                                      *)
(***************************************************************************)
EXTENDS Naturals, Sequences, FiniteSets, Functions

CONSTANTS
  Chats,
  Members,            \* Members[c]: the users who write in chat c
  MaxTexts, MaxFiles  \* bounds of the model: texts received in each chat, files

Users   == UNION {Members[c] : c \in Chats}
Origin  == {o \in [chat : Chats, user : Users] : o.user \in Members[o.chat]}
TextIds == Nat \ {0}
FileIds == 1..MaxFiles

ASSUME ConstantsAssumption ==
  MaxTexts \in [Chats -> Nat] /\ MaxFiles \in Nat

VARIABLES
  texts, files,   \* history: origin of every text and file received so far
  poll,           \* where the polling goroutine is
  buffers,        \* buffers[c]: texts of chat c that wait for its timer
  timer,          \* timer[c]: life of buf.timer
  orphans,        \* orphans[c]: armed timers no buffer refers to any more
  firing,         \* firing[c]: timer goroutines that wait for the lock
  flights,        \* messages that flushBuffer has taken and not sent yet
  fileQueue,      \* fileQueue[c][u]: files that wait for a text of u in c
  delivered,      \* history: messages sent into the inbound channel
  main,           \* life of the source: Stop, the closed channel, the end
  todo,           \* chats that drainBuffers has yet to flush
  listed          \* history: number of texts when drainBuffers listed them

debounce == <<buffers, timer, orphans, firing>>
stop     == <<main, todo, listed>>
vars     == <<texts, files, poll, debounce, flights, fileQueue, delivered, stop>>

InChat(c) == {i \in 1..Len(texts) : texts[i].chat = c}

Message == {m \in [chat : Chats, user : Users, texts : Seq(TextIds), files : SUBSET FileIds] :
              m.texts # <<>>}
Flight  == [msg : Message, step : {"pop", "send"}, by : {"timer", "drain"}]

TypeOK ==
  /\ texts \in Seq(Origin) /\ \A c \in Chats : Cardinality(InChat(c)) <= MaxTexts[c]
  /\ files \in Seq(Origin) /\ Len(files) <= MaxFiles
  /\ poll \in {"select", "download", "gone"}
  /\ buffers \in [Chats -> Seq(TextIds)]
  /\ timer \in [Chats -> {"none", "armed", "fired"}]
  /\ orphans \in [Chats -> Nat] /\ firing \in [Chats -> Nat]
  /\ flights \subseteq Flight
  /\ fileQueue \in [Chats -> [Users -> SUBSET FileIds]]
  /\ delivered \subseteq Message
  /\ main \in {"up", "draining", "cancelled", "closed", "exited"}
  /\ todo \subseteq Chats /\ listed \in 0..Len(texts)

Init ==
  /\ texts = <<>> /\ files = <<>> /\ poll = "select"
  /\ buffers = [c \in Chats |-> <<>>] /\ timer = [c \in Chats |-> "none"]
  /\ orphans = [c \in Chats |-> 0] /\ firing = [c \in Chats |-> 0]
  /\ flights = {} /\ fileQueue = [c \in Chats |-> [u \in Users |-> {}]] /\ delivered = {}
  /\ main = "up" /\ todo = {} /\ listed = 0

Alive == main # "exited"

-----------------------------------------------------------------------------
(* The polling goroutine.                                                  *)

BufferNoTimer(c, u) ==
  /\ Alive /\ poll = "select" /\ Cardinality(InChat(c)) < MaxTexts[c]
  /\ texts' = Append(texts, [chat |-> c, user |-> u])
  /\ buffers' = [buffers EXCEPT ![c] = Append(@, Len(texts'))]
  /\ timer' = [timer EXCEPT ![c] = IF timer[c] = "none" /\ firing[c] = 0 THEN "armed" ELSE "none"]
  /\ UNCHANGED <<files, poll, orphans, firing, flights, fileQueue, delivered, stop>>

BufferFront(c, u) ==
  /\ Alive /\ poll = "select" /\ Cardinality(InChat(c)) < MaxTexts[c]
  /\ texts' = Append(texts, [chat |-> c, user |-> u])
  /\ buffers' = [buffers EXCEPT ![c] = <<Len(texts')>> \o @]
  /\ timer' = [timer EXCEPT ![c] = "armed"]
  /\ UNCHANGED <<files, poll, orphans, firing, flights, fileQueue, delivered, stop>>

\* A text, in a group one addressed to the bot: bufferMessage stops the timer, if
\* it still can, and starts another.
BufferMessage(c, u) ==
  /\ Alive /\ poll = "select" /\ Cardinality(InChat(c)) < MaxTexts[c]
  /\ texts' = Append(texts, [chat |-> c, user |-> u])
  /\ buffers' = [buffers EXCEPT ![c] = Append(@, Len(texts'))]
  /\ timer' = [timer EXCEPT ![c] = "armed"]
  /\ UNCHANGED <<files, poll, orphans, firing, flights, fileQueue, delivered, stop>>

\* A document or photo: the polling goroutine itself downloads it ...
Upload(c, u) ==
  /\ Alive /\ poll = "select" /\ Len(files) < MaxFiles
  /\ files' = Append(files, [chat |-> c, user |-> u])
  /\ poll' = "download"
  /\ UNCHANGED <<texts, debounce, flights, fileQueue, delivered, stop>>

QueueByChat ==
  LET o == files[Len(files)] IN
  /\ Alive /\ poll = "download"
  /\ fileQueue' = [fileQueue EXCEPT ![o.chat] = [u \in Users |-> @[u] \cup {Len(files)}]]
  /\ poll' = "select"
  /\ UNCHANGED <<texts, files, debounce, flights, delivered, stop>>

\* ... and queues it under its user and chat,
QueueFile ==
  LET o == files[Len(files)] IN
  /\ Alive /\ poll = "download"
  /\ fileQueue' = [fileQueue EXCEPT ![o.chat][o.user] = @ \cup {Len(files)}]
  /\ poll' = "select"
  /\ UNCHANGED <<texts, files, debounce, flights, delivered, stop>>

\* or gives up on it.
DownloadFails ==
  /\ Alive /\ poll = "download"
  /\ files' = SubSeq(files, 1, Len(files) - 1)
  /\ poll' = "select"
  /\ UNCHANGED <<texts, debounce, flights, fileQueue, delivered, stop>>

\* case <-ctx.Done(), at a select that may as well take another update
PollEnds ==
  /\ Alive /\ poll = "select" /\ main \in {"cancelled", "closed"}
  /\ poll' = "gone"
  /\ UNCHANGED <<texts, files, debounce, flights, fileQueue, delivered, stop>>

-----------------------------------------------------------------------------
(* Timers, and the goroutines they start.                                  *)

TimerFires(c) ==
  /\ Alive /\ timer[c] = "armed"
  /\ timer' = [timer EXCEPT ![c] = "fired"] /\ firing' = [firing EXCEPT ![c] = @ + 1]
  /\ UNCHANGED <<texts, files, poll, buffers, orphans, flights, fileQueue, delivered, stop>>

OrphanFires(c) ==
  /\ Alive /\ orphans[c] > 0
  /\ orphans' = [orphans EXCEPT ![c] = @ - 1] /\ firing' = [firing EXCEPT ![c] = @ + 1]
  /\ UNCHANGED <<texts, files, poll, buffers, timer, flights, fileQueue, delivered, stop>>

\* The message is the last sender's.
Taken(c, by) ==
  LET last == buffers[c][Len(buffers[c])] IN
  [msg |-> [chat |-> c, user |-> texts[last].user, texts |-> buffers[c], files |-> {}],
   step |-> "pop", by |-> by]

TakeKeeping(c, by) ==
  /\ flights' = flights \cup {Taken(c, by)}
  /\ timer' = [timer EXCEPT ![c] = "none"]
  /\ orphans' = [orphans EXCEPT ![c] = IF timer[c] = "armed" THEN @ + 1 ELSE @]
  /\ UNCHANGED buffers

\* flushBuffer under buffersMu: the buffer is taken and deleted, and with it the
\* reference to a timer that may be armed.
Take(c, by) ==
  /\ flights' = flights \cup {Taken(c, by)}
  /\ buffers' = [buffers EXCEPT ![c] = <<>>]
  /\ timer' = [timer EXCEPT ![c] = "none"]
  /\ orphans' = [orphans EXCEPT ![c] = IF timer[c] = "armed" THEN @ + 1 ELSE @]

FlushUnchecked(c) ==
  LET none == [chat |-> c, user |-> CHOOSE u \in Members[c] : TRUE, texts |-> <<>>, files |-> {}] IN
  /\ Alive /\ firing[c] > 0
  /\ firing' = [firing EXCEPT ![c] = @ - 1]
  /\ IF buffers[c] # <<>> THEN Take(c, "timer")
     ELSE /\ flights' = flights \cup {[msg |-> none, step |-> "pop", by |-> "timer"]}
          /\ UNCHANGED <<buffers, timer, orphans>>
  /\ UNCHANGED <<texts, files, poll, fileQueue, delivered, stop>>

\* A timer goroutine gets the lock; it returns if there is nothing to flush.
Flush(c) ==
  /\ Alive /\ firing[c] > 0
  /\ firing' = [firing EXCEPT ![c] = @ - 1]
  /\ IF buffers[c] = <<>> THEN UNCHANGED <<flights, buffers, timer, orphans>> ELSE Take(c, "timer")
  /\ UNCHANGED <<texts, files, poll, fileQueue, delivered, stop>>

\* flushBuffer under fileQueueMu: the last sender's files in this chat.
PopFiles(f) ==
  /\ Alive /\ f \in flights /\ f.step = "pop"
  /\ LET with == [f.msg EXCEPT !.files = fileQueue[f.msg.chat][f.msg.user]]
     IN flights' = (flights \ {f}) \cup {[msg |-> with, step |-> "send", by |-> f.by]}
  /\ fileQueue' = [fileQueue EXCEPT ![f.msg.chat][f.msg.user] = {}]
  /\ UNCHANGED <<texts, files, poll, debounce, delivered, stop>>

\* s.inbound <- msg
Send(f) ==
  /\ Alive /\ main # "closed" /\ f \in flights /\ f.step = "send"
  /\ delivered' = delivered \cup {f.msg} /\ flights' = flights \ {f}
  /\ UNCHANGED <<texts, files, poll, debounce, fileQueue, stop>>

\* A send on the channel that telepath.Stop has closed ends the process.
SendPanics(f) ==
  /\ main = "closed" /\ f \in flights /\ f.step = "send"
  /\ main' = "exited"
  /\ UNCHANGED <<texts, files, poll, debounce, flights, fileQueue, delivered, todo, listed>>

-----------------------------------------------------------------------------
(* Stop, and what telepath.Stop and main do after it.                      *)

StopBegins ==
  /\ main = "up"
  /\ main' = "draining" /\ todo' = {c \in Chats : buffers[c] # <<>>} /\ listed' = Len(texts)
  /\ UNCHANGED <<texts, files, poll, debounce, flights, fileQueue, delivered>>

Draining == \E f \in flights : f.by = "drain"

DrainEmptyHanded(c) ==
  /\ main = "draining" /\ ~Draining /\ c \in todo
  /\ todo' = {}
  /\ IF buffers[c] = <<>> THEN UNCHANGED <<flights, buffers, timer, orphans>> ELSE Take(c, "drain")
  /\ UNCHANGED <<texts, files, poll, firing, fileQueue, delivered, main, listed>>

\* flushBuffer for one of the listed chats, from the goroutine that stops.
DrainChat(c) ==
  /\ main = "draining" /\ ~Draining /\ c \in todo
  /\ todo' = todo \ {c}
  /\ IF buffers[c] = <<>> THEN UNCHANGED <<flights, buffers, timer, orphans>> ELSE Take(c, "drain")
  /\ UNCHANGED <<texts, files, poll, firing, fileQueue, delivered, main, listed>>

CancelPoll ==
  /\ main = "draining" /\ ~Draining /\ todo = {}
  /\ main' = "cancelled"
  /\ UNCHANGED <<texts, files, poll, debounce, flights, fileQueue, delivered, todo, listed>>

Close ==
  /\ main = "cancelled" /\ main' = "closed"
  /\ UNCHANGED <<texts, files, poll, debounce, flights, fileQueue, delivered, todo, listed>>

Exit ==
  /\ main = "closed" /\ main' = "exited"
  /\ UNCHANGED <<texts, files, poll, debounce, flights, fileQueue, delivered, todo, listed>>

-----------------------------------------------------------------------------
PollStep ==
  \/ \E c \in Chats : \E u \in Members[c] : BufferMessage(c, u) \/ Upload(c, u)
  \/ QueueFile \/ DownloadFails \/ PollEnds
FlushStep ==
  \/ \E c \in Chats : TimerFires(c) \/ OrphanFires(c) \/ Flush(c)
  \/ \E f \in flights : PopFiles(f) \/ Send(f) \/ SendPanics(f)
StopStep == StopBegins \/ (\E c \in Chats : DrainChat(c)) \/ CancelPoll \/ Close \/ Exit

Next == PollStep \/ FlushStep \/ StopStep

Spec == Init /\ [][Next]_vars

(***************************************************************************)
(* Fairness: an armed timer fires, goroutines are scheduled, the loop      *)
(* makes room in the channel. MaxTexts stands for a chat that falls        *)
(* silent: one that never does keeps restarting its timer.                 *)
(***************************************************************************)
Fairness ==
  /\ \A c \in Chats : WF_vars(TimerFires(c)) /\ WF_vars(OrphanFires(c)) /\ WF_vars(Flush(c))
  /\ WF_vars(\E f \in flights : PopFiles(f)) /\ WF_vars(\E f \in flights : Send(f))

FairSpec == Spec /\ Fairness

-----------------------------------------------------------------------------
(* Properties.                                                             *)

\* The messages taken from the buffers, sent or not.
Outgoing == {f.msg : f \in flights} \cup delivered

\* A text that was received waits in its chat's buffer or is part of a message,
\* once: flushes that race with the poller, with timers that could not be stopped
\* and with the drain neither lose nor repeat it.
TextsKept ==
  /\ \A i \in 1..Len(texts) :
       /\ (\E c \in Chats : i \in Range(buffers[c]))
            <=> ~ \E m \in Outgoing : i \in Range(m.texts)
       /\ \A c, d \in Chats : i \in Range(buffers[c]) \cap Range(buffers[d]) => c = d
       /\ \A m, n \in Outgoing : i \in Range(m.texts) \cap Range(n.texts) => m = n
  /\ \A m \in Outgoing : \A i, j \in 1..Len(m.texts) : m.texts[i] = m.texts[j] => i = j

\* A message joins consecutive texts of one chat, in the order they were written.
RunsOfTexts ==
  \A m \in Outgoing :
    /\ Range(m.texts) \subseteq InChat(m.chat)
    /\ \A i, j \in 1..Len(m.texts) : i < j => m.texts[i] < m.texts[j]
    /\ \A t \in InChat(m.chat) :
         t > m.texts[1] /\ t < m.texts[Len(m.texts)] => t \in Range(m.texts)

\* A file is queued or attached, once, and only ever to a message of the user who
\* uploaded it, in the chat where that was: not to what another member wrote.
FilesKept ==
  \A n \in (1..Len(files)) \ (IF poll = "download" THEN {Len(files)} ELSE {}) :
    LET o == files[n]
        with == {m \in Outgoing : n \in m.files}
    IN /\ \A m \in with : m.chat = o.chat /\ m.user = o.user
       /\ \A c \in Chats, u \in Users :
            n \in fileQueue[c][u] => c = o.chat /\ u = o.user /\ with = {}
       /\ \A m, k \in with : m = k
       /\ with = {} => n \in fileQueue[o.chat][o.user]

\* When the channel is closed, whatever still sits in a buffer was received after
\* the drain had listed the buffers.
DrainCoversListed ==
  main \in {"closed", "exited"} =>
    \A c \in Chats : \A i \in Range(buffers[c]) : i > listed

\* Every text reaches the pipeline, unless the source is stopped first: in a chat
\* that falls silent there is a time after which none is on its way, whatever timers
\* were stopped, restarted or orphaned.
TextDelivered ==
  <>[](main # "up" \/ \A i \in 1..Len(texts) : \E m \in delivered : i \in Range(m.texts))

\* What docs/guide/telegram.md says of the debounce: the messages "a user sends"
\* in quick succession are processed as a single request of that user.
OwnWords ==
  \A m \in delivered : \A i \in Range(m.texts) : texts[i].user = m.user

=============================================================================
