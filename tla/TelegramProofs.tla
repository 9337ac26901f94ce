--------------------------- MODULE TelegramProofs ---------------------------
(***************************************************************************)
(* The safety properties of Telegram, for any set of chats, members, texts *)
(* and files.                                                              *)
(***************************************************************************)
EXTENDS Telegram, FiniteSetTheorems, SequenceTheorems, TLAPS

\* A buffer holds, in order, all texts of its chat from some point on.
BufferInv ==
  \A c \in Chats :
    /\ Range(buffers[c]) \subseteq InChat(c)
    /\ \A i, j \in 1..Len(buffers[c]) : i < j => buffers[c][i] < buffers[c][j]
    /\ \A t \in InChat(c), i \in Range(buffers[c]) : t > i => t \in Range(buffers[c])

\* No two messages under way share a text, nor one of them and one delivered: a
\* flight is known by its texts when it takes the files and when it ends.
FlightInv ==
  /\ \A f, g \in flights : f # g => Range(f.msg.texts) \cap Range(g.msg.texts) = {}
  /\ \A f \in flights, m \in delivered : Range(f.msg.texts) \cap Range(m.texts) = {}

\* Files that have been downloaded.
Stored == (1..Len(files)) \ (IF poll = "download" THEN {Len(files)} ELSE {})

\* Only these are queued or attached, and none to a message that has yet to take its.
FileInv ==
  /\ poll = "download" => files # <<>>
  /\ \A f \in flights : f.step = "pop" => f.msg.files = {}
  /\ \A c \in Chats, u \in Users : fileQueue[c][u] \subseteq Stored
  /\ \A m \in Outgoing : m.files \subseteq Stored

\* A chat that is not, or no longer, to be drained holds only texts that came after
\* the drain had listed the buffers.
DrainInv ==
  main \notin {"up"} =>
    \A c \in Chats : (main = "draining" /\ c \in todo)
                     \/ \A i \in Range(buffers[c]) : i > listed

TextInv == BufferInv /\ FlightInv /\ TextsKept /\ RunsOfTexts
IInv    == TypeOK /\ TextInv /\ FileInv /\ FilesKept /\ DrainInv

-----------------------------------------------------------------------------
USE ConstantsAssumption DEF TextIds, FileIds, Alive

\* The elements of a sequence, and what Append adds to them.
LEMMA RangeFacts ==
  ASSUME NEW S, NEW s \in Seq(S)
  PROVE  /\ Len(s) \in Nat /\ Range(s) = {s[i] : i \in 1..Len(s)} /\ Range(s) \subseteq S
         /\ s # <<>> => Len(s) > 0 /\ s[1] \in Range(s) /\ s[Len(s)] \in Range(s)
<1>1. Len(s) \in Nat /\ Range(s) = {s[i] : i \in 1..Len(s)} /\ Range(s) \subseteq S
  BY LenProperties, RangeEquality, RangeOfSeq
<1>2. s # <<>> => Len(s) > 0
  BY <1>1, EmptySeq
<1>3. QED
  BY <1>1, <1>2

LEMMA RangeAppend ==
  ASSUME NEW S, NEW s \in Seq(S), NEW e \in S
  PROVE  Range(Append(s, e)) = Range(s) \cup {e}
<1>1. /\ Append(s, e) \in Seq(S) /\ Len(Append(s, e)) = Len(s) + 1
      /\ \A i \in 1..Len(s) : Append(s, e)[i] = s[i]
      /\ Append(s, e)[Len(s) + 1] = e
  BY AppendProperties
<1>2. Range(Append(s, e)) = {Append(s, e)[i] : i \in 1..Len(s) + 1}
  BY <1>1, RangeEquality
<1>3. Len(s) \in Nat /\ Range(s) = {s[i] : i \in 1..Len(s)}
  BY RangeFacts
<1>4. 1..Len(s) + 1 = 1..Len(s) \cup {Len(s) + 1}
  BY <1>3
<1>5. QED
  BY <1>1, <1>2, <1>3, <1>4

LEMMA RangeEmpty == Range(<<>>) = {}
<1>1. <<>> \in Seq(Nat) /\ Len(<<>>) = 0
  BY EmptySeq
<1>2. Range(<<>>) = {<<>>[i] : i \in 1..Len(<<>>)}
  BY <1>1, RangeFacts
<1>3. QED
  BY <1>1, <1>2

\* A message has texts, a first and a last one among them.
LEMMA MessageTexts ==
  ASSUME NEW m \in Message
  PROVE  /\ m.texts \in Seq(Nat \ {0}) /\ Len(m.texts) \in Nat \ {0}
         /\ Range(m.texts) = {m.texts[i] : i \in 1..Len(m.texts)}
         /\ Range(m.texts) # {} /\ Range(m.texts) \subseteq Nat \ {0}
         /\ m.texts[1] \in Range(m.texts) /\ m.texts[Len(m.texts)] \in Range(m.texts)
<1>1. m.texts \in Seq(Nat \ {0}) /\ m.texts # <<>>
  BY DEF Message
<1>2. QED
  BY <1>1, RangeFacts

\* What is outgoing are messages.
LEMMA OutgoingType ==
  ASSUME TypeOK
  PROVE  Outgoing \subseteq Message
BY DEF TypeOK, Outgoing, Flight

\* Texts of a chat are texts.
LEMMA InChatType ==
  ASSUME TypeOK, NEW c \in Chats
  PROVE  /\ Len(texts) \in Nat /\ InChat(c) \subseteq 1..Len(texts) /\ IsFiniteSet(InChat(c))
<1>1. Len(texts) \in Nat
  BY LenProperties DEF TypeOK
<1>2. InChat(c) \subseteq 1..Len(texts)
  BY DEF InChat
<1>3. IsFiniteSet(1..Len(texts))
  BY <1>1, FS_Interval
<1>4. QED
  BY <1>1, <1>2, <1>3, FS_Subset

\* Init satisfies the invariant.
LEMMA InitIInv == Init => IInv
<1> SUFFICES ASSUME Init PROVE IInv
  OBVIOUS
<1> USE DEF Init
<1>1. /\ texts = <<>> /\ files = <<>> /\ Len(texts) = 0 /\ Len(files) = 0
      /\ <<>> \in Seq(Origin) /\ <<>> \in Seq(Nat \ {0})
  BY EmptySeq
<1>2. \A c \in Chats : InChat(c) = {} /\ Range(buffers[c]) = {}
  BY <1>1, RangeEmpty DEF InChat
<1>3. Cardinality({}) = 0
  BY FS_EmptySet
<1>4. TypeOK
  <2>1. \A c \in Chats : Cardinality(InChat(c)) <= MaxTexts[c]
    <3>1. \A c \in Chats : Cardinality(InChat(c)) = 0
      BY <1>2, <1>3, Zenon
    <3>2. QED
      BY <3>1
  <2>2. fileQueue \in [Chats -> [Users -> SUBSET FileIds]]
    OBVIOUS
  <2>3. /\ buffers \in [Chats -> Seq(Nat \ {0})] /\ timer \in [Chats -> {"none", "armed", "fired"}]
        /\ orphans \in [Chats -> Nat] /\ firing \in [Chats -> Nat]
    BY <1>1
  <2>4. QED
    BY <1>1, <2>1, <2>2, <2>3 DEF TypeOK
<1>5. BufferInv /\ FlightInv /\ FileInv /\ DrainInv
  BY <1>1, <1>2 DEF BufferInv, FlightInv, FileInv, DrainInv, Outgoing
<1>6. Outgoing = {} /\ 1..Len(texts) = {} /\ 1..Len(files) = {}
  BY <1>1 DEF Outgoing
<1>7. TextsKept
  BY <1>6 DEF TextsKept
<1>8. RunsOfTexts
  BY <1>6 DEF RunsOfTexts
<1>9. FilesKept
  BY <1>6 DEF FilesKept
<1>10. QED
  BY <1>4, <1>5, <1>7, <1>8, <1>9 DEF IInv, TextInv

-----------------------------------------------------------------------------
\* The texts are where they were.
LEMMA TextsStay ==
  ASSUME TextInv, UNCHANGED <<texts, buffers, flights, delivered>>
  PROVE  TextInv'
<1>1. BufferInv'
  BY DEF TextInv, BufferInv, InChat
<1>2. FlightInv'
  BY DEF TextInv, FlightInv
<1>3. TextsKept'
  BY DEF TextInv, TextsKept, Outgoing
<1>4. RunsOfTexts'
  BY DEF TextInv, RunsOfTexts, Outgoing, InChat
<1>5. QED
  BY <1>1, <1>2, <1>3, <1>4 DEF TextInv

\* The files are where they were.
LEMMA FilesStay ==
  ASSUME FileInv, FilesKept, UNCHANGED <<files, poll, flights, fileQueue, delivered>>
  PROVE  FileInv' /\ FilesKept'
<1>1. Outgoing' = Outgoing /\ Stored' = Stored
  BY DEF Outgoing, Stored
<1>2. QED
  BY <1>1 DEF FileInv, FilesKept

\* A text is buffered, behind the others of its chat.
LEMMA BufferStep ==
  ASSUME IInv, NEW c \in Chats, NEW u \in Members[c], BufferMessage(c, u)
  PROVE  IInv'
<1> DEFINE n == Len(texts) + 1
           o == [chat |-> c, user |-> u]
<1>1. o \in Origin /\ texts \in Seq(Origin) /\ Len(texts) \in Nat /\ n \in Nat \ {0}
  BY LenProperties DEF Origin, Users, IInv, TypeOK
<1>2. texts' = Append(texts, o)
  BY DEF BufferMessage
<1> HIDE DEF o
<1>3. /\ texts' \in Seq(Origin) /\ Len(texts') = n
      /\ \A i \in 1..Len(texts) : texts'[i] = texts[i]
      /\ texts'[n] = o
  BY <1>1, <1>2, AppendProperties
<1>4. 1..Len(texts') = 1..Len(texts) \cup {n} /\ n \notin 1..Len(texts)
  BY <1>1, <1>3
<1>5. o.chat = c
  BY DEF o
<1>6. /\ InChat(c)' = InChat(c) \cup {n}
      /\ \A d \in Chats : d # c => InChat(d)' = InChat(d)
  BY <1>3, <1>4, <1>5 DEF InChat
<1>7. /\ \A d \in Chats : buffers[d] \in Seq(Nat \ {0})
      /\ buffers' \in [Chats -> Seq(Nat \ {0})]
      /\ buffers'[c] = Append(buffers[c], n)
      /\ \A d \in Chats : d # c => buffers'[d] = buffers[d]
  <2>1. \A d \in Chats : buffers[d] \in Seq(Nat \ {0})
    BY DEF IInv, TypeOK
  <2>2. buffers' = [buffers EXCEPT ![c] = Append(buffers[c], n)]
    BY <1>3 DEF BufferMessage
  <2>3. Append(buffers[c], n) \in Seq(Nat \ {0})
    BY <1>1, <2>1, AppendProperties
  <2>4. QED
    BY <2>1, <2>2, <2>3 DEF IInv, TypeOK
<1>8. /\ Range(buffers'[c]) = Range(buffers[c]) \cup {n}
      /\ Len(buffers'[c]) = Len(buffers[c]) + 1 /\ Len(buffers[c]) \in Nat
      /\ buffers'[c][Len(buffers[c]) + 1] = n
      /\ \A i \in 1..Len(buffers[c]) : buffers'[c][i] = buffers[c][i]
                                       /\ buffers[c][i] \in Range(buffers[c])
  <2>1. buffers[c] \in Seq(Nat \ {0}) /\ buffers'[c] = Append(buffers[c], n)
    BY <1>7
  <2>2. Range(buffers'[c]) = Range(buffers[c]) \cup {n}
    BY <1>1, <2>1, RangeAppend
  <2>3. /\ Len(buffers'[c]) = Len(buffers[c]) + 1
        /\ buffers'[c][Len(buffers[c]) + 1] = n
        /\ \A i \in 1..Len(buffers[c]) : buffers'[c][i] = buffers[c][i]
    BY <1>1, <2>1, AppendProperties
  <2>4. Len(buffers[c]) \in Nat /\ Range(buffers[c]) = {buffers[c][i] : i \in 1..Len(buffers[c])}
    BY <2>1, RangeFacts
  <2>5. QED
    BY <2>2, <2>3, <2>4
<1>9. Outgoing' = Outgoing
  BY DEF BufferMessage, Outgoing
<1>10. /\ \A d \in Chats : InChat(d) \subseteq 1..Len(texts)
       /\ \A d \in Chats : Range(buffers[d]) \subseteq 1..Len(texts)
       /\ \A m \in Outgoing : m \in Message /\ Range(m.texts) \subseteq InChat(m.chat)
       /\ \A m \in Outgoing : m.chat \in Chats /\ Range(m.texts) \subseteq 1..Len(texts)
  <2>1. \A d \in Chats : InChat(d) \subseteq 1..Len(texts)
    BY InChatType DEF IInv
  <2>2. \A m \in Outgoing : m \in Message /\ m.chat \in Chats
    BY OutgoingType DEF IInv, Message
  <2>3. QED
    BY <2>1, <2>2 DEF IInv, TextInv, BufferInv, RunsOfTexts
<1>11. BufferInv'
  <2>1. ASSUME NEW d \in Chats, d # c
        PROVE  /\ Range(buffers'[d]) \subseteq InChat(d)'
               /\ \A i, j \in 1..Len(buffers'[d]) : i < j => buffers'[d][i] < buffers'[d][j]
               /\ \A t \in InChat(d)', i \in Range(buffers'[d]) :
                    t > i => t \in Range(buffers'[d])
    <3>1. buffers'[d] = buffers[d] /\ InChat(d)' = InChat(d)
      BY <1>6, <1>7, <2>1
    <3>2. /\ Range(buffers[d]) \subseteq InChat(d)
          /\ \A i, j \in 1..Len(buffers[d]) : i < j => buffers[d][i] < buffers[d][j]
          /\ \A t \in InChat(d), i \in Range(buffers[d]) : t > i => t \in Range(buffers[d])
      BY DEF IInv, TextInv, BufferInv
    <3>3. QED
      BY <3>1, <3>2
  <2>2. Range(buffers'[c]) \subseteq InChat(c)'
    BY <1>6, <1>8 DEF IInv, TextInv, BufferInv
  <2>3. ASSUME NEW i \in 1..Len(buffers'[c]), NEW j \in 1..Len(buffers'[c]), i < j
        PROVE  buffers'[c][i] < buffers'[c][j]
    <3>1. i \in 1..Len(buffers[c])
      BY <1>8, <2>3
    <3>2. CASE j \in 1..Len(buffers[c])
      BY <1>8, <2>3, <3>1, <3>2 DEF IInv, TextInv, BufferInv
    <3>3. CASE j = Len(buffers[c]) + 1
      <4>1. buffers'[c][i] \in 1..Len(texts) /\ buffers'[c][j] = n
        BY <1>8, <1>10, <3>1, <3>3
      <4>2. QED
        BY <1>1, <4>1
    <3>4. QED
      BY <1>8, <3>2, <3>3
  <2>4. \A t \in InChat(c)', i \in Range(buffers'[c]) : t > i => t \in Range(buffers'[c])
    BY <1>1, <1>6, <1>8, <1>10 DEF IInv, TextInv, BufferInv
  <2>5. QED
    BY <2>1, <2>2, <2>3, <2>4 DEF BufferInv
<1>12. FlightInv'
  BY DEF BufferMessage, IInv, TextInv, FlightInv
<1>13. TextsKept'
  <2>1. ASSUME NEW i \in 1..Len(texts)
        PROVE  \A d \in Chats : i \in Range(buffers'[d]) <=> i \in Range(buffers[d])
    BY <1>4, <1>7, <1>8
  <2>2. /\ \A m \in Outgoing : n \notin Range(m.texts)
        /\ \A d \in Chats : n \in Range(buffers'[d]) <=> d = c
    BY <1>4, <1>7, <1>8, <1>10
  <2>3. ASSUME NEW i \in 1..Len(texts')
        PROVE  /\ (\E d \in Chats : i \in Range(buffers'[d]))
                    <=> ~ \E m \in Outgoing : i \in Range(m.texts)
               /\ \A d, e \in Chats :
                    i \in Range(buffers'[d]) \cap Range(buffers'[e]) => d = e
               /\ \A m, k \in Outgoing : i \in Range(m.texts) \cap Range(k.texts) => m = k
    <3>1. CASE i = n
      BY <2>2, <3>1
    <3>2. CASE i \in 1..Len(texts)
      BY <2>1, <3>2 DEF IInv, TextInv, TextsKept
    <3>3. QED
      BY <1>3, <1>4, <3>1, <3>2
  <2>4. QED
    BY <1>9, <2>3 DEF IInv, TextInv, TextsKept
<1>14. RunsOfTexts'
  <2>1. ASSUME NEW m \in Outgoing
        PROVE  /\ Range(m.texts) \subseteq InChat(m.chat)'
               /\ \A t \in InChat(m.chat)' :
                    t > m.texts[1] /\ t < m.texts[Len(m.texts)] => t \in Range(m.texts)
    <3>1. m.texts[Len(m.texts)] \in 1..Len(texts)
      BY <1>10, MessageTexts
    <3>2. InChat(m.chat)' \subseteq InChat(m.chat) \cup {n} /\ InChat(m.chat) \subseteq InChat(m.chat)'
      BY <1>6, <1>10
    <3>3. ~(n < m.texts[Len(m.texts)])
      BY <1>1, <3>1
    <3>4. QED
      BY <1>10, <3>2, <3>3 DEF IInv, TextInv, RunsOfTexts
  <2>2. QED
    BY <1>9, <2>1 DEF IInv, TextInv, RunsOfTexts
<1>15. FileInv' /\ FilesKept'
  BY FilesStay DEF BufferMessage, IInv
<1>16. DrainInv'
  <2>1. listed \in 0..Len(texts) /\ UNCHANGED <<main, todo, listed>>
    BY DEF BufferMessage, IInv, TypeOK, stop
  <2>2. n > listed
    BY <1>1, <2>1
  <2>3. QED
    BY <1>7, <1>8, <2>1, <2>2 DEF IInv, DrainInv
<1>17. TypeOK'
  <2>1. \A d \in Chats : Cardinality(InChat(d)') <= MaxTexts[d]
    <3>1. Cardinality(InChat(c)) \in Nat /\ Cardinality(InChat(c)) < MaxTexts[c]
      BY InChatType, FS_CardinalityType DEF BufferMessage, IInv
    <3>2. Cardinality(InChat(c) \cup {n}) = Cardinality(InChat(c)) + 1
      BY <1>4, <1>10, InChatType, FS_AddElement DEF IInv
    <3>3. Cardinality(InChat(c)') <= MaxTexts[c]
      BY <1>6, <3>1, <3>2
    <3>4. \A d \in Chats : d # c => Cardinality(InChat(d)') <= MaxTexts[d]
      BY <1>6 DEF IInv, TypeOK
    <3>5. QED
      BY <3>3, <3>4
  <2>2. listed' \in 0..Len(texts')
    BY <1>1, <1>3 DEF BufferMessage, IInv, TypeOK, stop
  <2>3. QED
    BY <1>3, <1>7, <2>1, <2>2 DEF BufferMessage, IInv, TypeOK, stop
<1>18. QED
  BY <1>11, <1>12, <1>13, <1>14, <1>15, <1>16, <1>17 DEF IInv, TextInv

\* A file is on its way to the disk: it is not stored yet.
LEMMA UploadStep ==
  ASSUME IInv, NEW c \in Chats, NEW u \in Members[c], Upload(c, u)
  PROVE  IInv'
<1> USE DEF Upload
<1> DEFINE o == [chat |-> c, user |-> u]
<1>1. o \in Origin /\ files \in Seq(Origin) /\ Len(files) \in Nat
  BY LenProperties DEF Origin, Users, IInv, TypeOK
<1> HIDE DEF o
<1>2. /\ files' \in Seq(Origin) /\ Len(files') = Len(files) + 1 /\ files' # <<>>
      /\ \A i \in 1..Len(files) : files'[i] = files[i]
  <2>1. files' = Append(files, o)
    BY DEF o
  <2>2. QED
    BY <1>1, <2>1, AppendProperties
<1>3. Stored = 1..Len(files) /\ Stored' = Stored /\ Outgoing' = Outgoing
  BY <1>1, <1>2 DEF Stored, Outgoing
<1>4. TypeOK'
  <2>1. \A d \in Chats : InChat(d)' = InChat(d)
    BY DEF InChat
  <2>2. \A d \in Chats : Cardinality(InChat(d)') <= MaxTexts[d]
    BY <2>1 DEF IInv, TypeOK
  <2>3. QED
    BY <1>1, <1>2, <2>2 DEF IInv, TypeOK, debounce, stop
<1>5. FileInv'
  BY <1>2, <1>3 DEF IInv, FileInv
<1>6. FilesKept'
  BY <1>2, <1>3 DEF IInv, FilesKept, Stored
<1>7. TextInv' /\ DrainInv'
  BY TextsStay DEF IInv, DrainInv, debounce, stop
<1>8. QED
  BY <1>4, <1>5, <1>6, <1>7 DEF IInv

\* The types of what a step on files, flights or the phases leaves alone.
LEMMA CountsStay ==
  ASSUME TypeOK, texts' = texts
  PROVE  \A d \in Chats : Cardinality(InChat(d)') <= MaxTexts[d]
<1>1. \A d \in Chats : InChat(d)' = InChat(d)
  BY DEF InChat
<1>2. QED
  BY <1>1 DEF TypeOK

\* A file is downloaded and queued, for its own user and chat; nothing else has it.
LEMMA QueueStep ==
  ASSUME IInv, QueueFile
  PROVE  IInv'
<1> DEFINE n == Len(files)
           o == files[n]
<1>1. files \in Seq(Origin) /\ files # <<>> /\ n \in Nat \ {0} /\ n <= MaxFiles
  BY EmptySeq DEF QueueFile, IInv, TypeOK, FileInv
<1>2. o \in Origin /\ o.chat \in Chats /\ o.user \in Users
  BY <1>1, ElementOfSeq DEF Origin
<1>3. /\ Stored = 1..n \ {n} /\ Stored' = 1..n /\ Outgoing' = Outgoing
      /\ \A m \in Outgoing : n \notin m.files
      /\ \A c \in Chats, u \in Users : n \notin fileQueue[c][u]
  BY DEF QueueFile, Stored, Outgoing, IInv, FileInv
<1>4. /\ fileQueue' \in [Chats -> [Users -> SUBSET FileIds]]
      /\ fileQueue'[o.chat][o.user] = fileQueue[o.chat][o.user] \cup {n}
      /\ \A c \in Chats, u \in Users :
           <<c, u>> # <<o.chat, o.user>> => fileQueue'[c][u] = fileQueue[c][u]
  BY <1>1, <1>2 DEF QueueFile, IInv, TypeOK
<1>5. TypeOK'
  BY <1>4, CountsStay DEF QueueFile, IInv, TypeOK, debounce, stop
<1>6. \A c \in Chats, u \in Users : fileQueue[c][u] \subseteq fileQueue'[c][u]
                                    /\ fileQueue'[c][u] \subseteq fileQueue[c][u] \cup {n}
  BY <1>4
<1>7. FileInv'
  <2>1. UNCHANGED <<flights, files>> /\ poll' = "select"
    BY DEF QueueFile
  <2>2. \A c \in Chats, u \in Users : fileQueue'[c][u] \subseteq Stored'
    BY <1>1, <1>3, <1>6 DEF IInv, FileInv
  <2>3. \A m \in Outgoing : m.files \subseteq Stored'
    BY <1>3 DEF IInv, FileInv
  <2>4. QED
    BY <1>3, <2>1, <2>2, <2>3 DEF IInv, FileInv
<1>8. FilesKept'
  <2>1. UNCHANGED files /\ poll' = "select" /\ poll = "download"
    BY DEF QueueFile
  <2>2. ASSUME NEW k \in Stored'
        PROVE  LET p    == files[k]
                   with == {m \in Outgoing : k \in m.files}
               IN /\ \A m \in with : m.chat = p.chat /\ m.user = p.user
                  /\ \A c \in Chats, u \in Users :
                       k \in fileQueue'[c][u] => c = p.chat /\ u = p.user /\ with = {}
                  /\ \A m, j \in with : m = j
                  /\ with = {} => k \in fileQueue'[p.chat][p.user]
    <3>1. CASE k = n
      BY <1>3, <1>4, <3>1
    <3>2. CASE k # n
      <4>1. k \in Stored /\ files[k] \in Origin
        BY <1>1, <1>3, <2>2, <3>2, ElementOfSeq
      <4>2. \A c \in Chats, u \in Users : k \in fileQueue'[c][u] <=> k \in fileQueue[c][u]
        BY <1>6, <3>2
      <4>3. files[k].chat \in Chats /\ files[k].user \in Users
        BY <4>1 DEF Origin
      <4>4. QED
        BY <2>1, <4>1, <4>2, <4>3 DEF IInv, FilesKept, Stored
    <3>3. QED
      BY <3>1, <3>2
  <2>3. QED
    BY <1>3, <2>1, <2>2 DEF FilesKept, Stored
<1>9. TextInv' /\ DrainInv'
  BY TextsStay DEF QueueFile, IInv, DrainInv, debounce, stop
<1>10. QED
  BY <1>5, <1>7, <1>8, <1>9 DEF IInv

\* A file that was not stored is forgotten.
LEMMA DownloadFailsStep ==
  ASSUME IInv, DownloadFails
  PROVE  IInv'
<1> USE DEF DownloadFails
<1>1. files \in Seq(Origin) /\ Len(files) \in Nat \ {0}
  BY EmptySeq DEF IInv, TypeOK, FileInv
<1>2. /\ files' \in Seq(Origin) /\ Len(files') = Len(files) - 1
      /\ \A i \in 1..Len(files) - 1 : files'[i] = files[i]
  <2>1. \A i \in 1..Len(files) - 1 : files[i] \in Origin
    BY <1>1, ElementOfSeq
  <2> DEFINE k == Len(files) - 1
  <2>2. k \in Int /\ (1 <= k \/ k = 0) /\ k - 1 + 1 = k
    <3>1. \A x \in Nat \ {0} : x - 1 \in Int /\ (1 <= x - 1 \/ x - 1 = 0) /\ x - 1 - 1 + 1 = x - 1
      OBVIOUS
    <3>2. QED
      BY <1>1, <3>1
  <2> HIDE DEF k
  <2>3. /\ SubSeq(files, 1, k) \in Seq(Origin)
        /\ Len(SubSeq(files, 1, k)) = IF 1 <= k THEN k - 1 + 1 ELSE 0
        /\ \A i \in 1..k - 1 + 1 : SubSeq(files, 1, k)[i] = files[1 + i - 1]
    <3>1. 1 \in Int /\ \A i \in 1..k : files[i] \in Origin
      BY <2>1 DEF k
    <3>2. QED
      BY <2>2, <3>1, SubSeqProperties
  <2>4. \A i \in 1..k : 1 + i - 1 = i
    BY <2>2
  <2>5. files' = SubSeq(files, 1, k)
    BY DEF k
  <2>6. QED
    BY <2>2, <2>3, <2>4, <2>5 DEF k
<1>3. Stored = 1..Len(files) - 1 /\ Stored' = Stored /\ Outgoing' = Outgoing
  BY <1>1, <1>2 DEF Stored, Outgoing
<1>4. TypeOK'
  BY <1>1, <1>2, CountsStay DEF IInv, TypeOK, debounce, stop
<1>5. FileInv'
  BY <1>3 DEF IInv, FileInv
<1>6. FilesKept'
  BY <1>2, <1>3 DEF IInv, FilesKept, Stored
<1>7. TextInv' /\ DrainInv'
  BY TextsStay DEF IInv, DrainInv, debounce, stop
<1>8. QED
  BY <1>4, <1>5, <1>6, <1>7 DEF IInv

-----------------------------------------------------------------------------
\* A buffer becomes a message: its texts move, and no file does.
LEMMA TakeStep ==
  ASSUME IInv, NEW c \in Chats, NEW by \in {"timer", "drain"}, buffers[c] # <<>>, Take(c, by),
         UNCHANGED <<texts, files, poll, fileQueue, delivered>>
  PROVE  TextInv' /\ FileInv' /\ FilesKept' /\ flights' \subseteq Flight
<1> DEFINE t0   == Taken(c, by)
           m0   == t0.msg
           last == buffers[c][Len(buffers[c])]
<1>1. /\ t0 \in Flight /\ t0.step = "pop" /\ m0 \in Message
      /\ m0.chat = c /\ m0.texts = buffers[c] /\ m0.files = {}
      /\ \A k \in Outgoing : Range(m0.texts) \cap Range(k.texts) = {}
  <2>1. buffers[c] \in Seq(Nat \ {0})
    BY DEF IInv, TypeOK
  <2>2. last \in InChat(c) /\ Range(buffers[c]) \subseteq InChat(c)
    BY <2>1, RangeFacts DEF IInv, TextInv, BufferInv
  <2>3. last \in 1..Len(texts) /\ InChat(c) \subseteq 1..Len(texts) /\ texts \in Seq(Origin)
    BY <2>2, InChatType DEF IInv, TypeOK
  <2>4. texts[last].user \in Users
    BY <2>3, ElementOfSeq DEF Origin
  <2>5. /\ m0 = [chat |-> c, user |-> texts[last].user, texts |-> buffers[c], files |-> {}]
        /\ t0 = [msg |-> m0, step |-> "pop", by |-> by]
    BY DEF Taken
  <2>6. \A k \in Outgoing : Range(buffers[c]) \cap Range(k.texts) = {}
    BY <2>2, <2>3 DEF IInv, TextInv, TextsKept
  <2> HIDE DEF t0, m0, last
  <2>7. m0 \in Message
    BY <2>1, <2>4, <2>5 DEF Message
  <2>8. t0 \in Flight
    BY <2>5, <2>7 DEF Flight
  <2>9. QED
    BY <2>5, <2>6, <2>7, <2>8
<1>2. flights' = flights \cup {t0} /\ delivered' = delivered /\ m0 = t0.msg
  BY DEF Take
<1> HIDE DEF t0, m0, last
<1>3. Outgoing' = Outgoing \cup {m0}
  BY <1>2 DEF Outgoing
<1>4. \A f \in flights : f.msg \in Outgoing
  BY DEF Outgoing
<1>5. delivered \subseteq Outgoing
  BY DEF Outgoing
<1>6. buffers'[c] = <<>> /\ \A d \in Chats : d # c => buffers'[d] = buffers[d]
  BY DEF Take, IInv, TypeOK
<1>7. Range(buffers'[c]) = {} /\ Len(buffers'[c]) = 0 /\ texts' = texts
      /\ \A d \in Chats : InChat(d)' = InChat(d)
  BY <1>6, RangeEmpty, EmptySeq DEF InChat
<1>8. Stored' = Stored
  BY DEF Stored
<1>9. BufferInv'
  <2>1. \A i, j \in 1..Len(buffers'[c]) : FALSE
    BY <1>7
  <2>2. ASSUME NEW d \in Chats
        PROVE  /\ Range(buffers'[d]) \subseteq InChat(d)
               /\ \A i, j \in 1..Len(buffers'[d]) : i < j => buffers'[d][i] < buffers'[d][j]
               /\ \A t \in InChat(d), i \in Range(buffers'[d]) :
                    t > i => t \in Range(buffers'[d])
    <3>1. CASE d = c
      BY <1>7, <2>1, <3>1
    <3>2. CASE d # c
      BY <1>6, <3>2 DEF IInv, TextInv, BufferInv
    <3>3. QED
      BY <3>1, <3>2
  <2>3. QED
    BY <1>7, <2>2 DEF BufferInv
<1>10. FlightInv'
  BY <1>1, <1>2, <1>4, <1>5 DEF IInv, TextInv, FlightInv
<1>11. TextsKept'
  <2>1. ASSUME NEW i \in 1..Len(texts)
        PROVE  /\ (\E d \in Chats : i \in Range(buffers'[d]))
                    <=> ~ \E m \in Outgoing' : i \in Range(m.texts)
               /\ \A d, e \in Chats :
                    i \in Range(buffers'[d]) \cap Range(buffers'[e]) => d = e
               /\ \A m, k \in Outgoing' : i \in Range(m.texts) \cap Range(k.texts) => m = k
    <3>1. /\ (\E d \in Chats : i \in Range(buffers[d]))
               <=> ~ \E m \in Outgoing : i \in Range(m.texts)
          /\ \A d, e \in Chats : i \in Range(buffers[d]) \cap Range(buffers[e]) => d = e
          /\ \A m, k \in Outgoing : i \in Range(m.texts) \cap Range(k.texts) => m = k
      BY DEF IInv, TextInv, TextsKept
    <3>2. \A d \in Chats : i \in Range(buffers'[d]) <=> d # c /\ i \in Range(buffers[d])
      BY <1>6, <1>7
    <3>3. CASE i \in Range(buffers[c])
      <4>1. \A m \in Outgoing : i \notin Range(m.texts)
        BY <3>1, <3>3
      <4>2. \A d \in Chats : i \notin Range(buffers'[d])
        BY <3>1, <3>2, <3>3
      <4>3. QED
        BY <1>1, <1>3, <3>3, <4>1, <4>2
    <3>4. CASE i \notin Range(buffers[c])
      <4>1. \A d \in Chats : i \in Range(buffers'[d]) <=> i \in Range(buffers[d])
        BY <3>2, <3>4
      <4>2. i \notin Range(m0.texts)
        BY <1>1, <3>4
      <4>3. QED
        BY <1>3, <3>1, <4>1, <4>2
    <3>5. QED
      BY <3>3, <3>4
  <2>2. ASSUME NEW m \in Outgoing', NEW i \in 1..Len(m.texts), NEW j \in 1..Len(m.texts),
               m.texts[i] = m.texts[j]
        PROVE  i = j
    <3>1. CASE m \in Outgoing
      BY <2>2, <3>1 DEF IInv, TextInv, TextsKept
    <3>2. CASE m = m0
      <4>1. /\ \A k \in 1..Len(buffers[c]) : buffers[c][k] \in Nat
            /\ Len(buffers[c]) \in Nat
        BY <1>1, <3>2, MessageTexts, ElementOfSeq DEF IInv, TypeOK
      <4>2. \A k, l \in 1..Len(buffers[c]) : k < l => buffers[c][k] < buffers[c][l]
        BY DEF IInv, TextInv, BufferInv
      <4>3. i \in 1..Len(buffers[c]) /\ j \in 1..Len(buffers[c]) /\ buffers[c][i] = buffers[c][j]
        BY <1>1, <2>2, <3>2
      <4>4. i < j \/ j < i \/ i = j
        BY <4>1, <4>3
      <4>5. QED
        BY <4>1, <4>2, <4>3, <4>4
    <3>3. QED
      BY <1>3, <3>1, <3>2
  <2>3. QED
    BY <1>7, <2>1, <2>2 DEF TextsKept
<1>12. RunsOfTexts'
  <2>1. ASSUME NEW m \in Outgoing'
        PROVE  /\ Range(m.texts) \subseteq InChat(m.chat)'
               /\ \A i, j \in 1..Len(m.texts) : i < j => m.texts[i] < m.texts[j]
               /\ \A t \in InChat(m.chat)' :
                    t > m.texts[1] /\ t < m.texts[Len(m.texts)] => t \in Range(m.texts)
    <3>1. CASE m \in Outgoing
      <4>1. InChat(m.chat)' = InChat(m.chat)
        BY <1>7 DEF InChat
      <4>2. QED
        BY <3>1, <4>1 DEF IInv, TextInv, RunsOfTexts
    <3>2. CASE m = m0
      <4>1. m.texts[1] \in Range(buffers[c])
        BY <1>1, <3>2, MessageTexts
      <4>2. QED
        BY <1>1, <1>7, <3>2, <4>1 DEF IInv, TextInv, BufferInv
    <3>3. QED
      BY <1>3, <3>1, <3>2
  <2>2. QED
    BY <2>1 DEF RunsOfTexts
<1>13. FileInv'
  BY <1>1, <1>2, <1>3, <1>8 DEF IInv, FileInv
<1>14. FilesKept'
  <2>1. \A n : {m \in Outgoing' : n \in m.files} = {m \in Outgoing : n \in m.files}
    BY <1>1, <1>3
  <2>2. QED
    BY <2>1 DEF IInv, FilesKept
<1>15. flights' \subseteq Flight
  BY <1>1, <1>2 DEF IInv, TypeOK
<1>16. QED
  BY <1>9, <1>10, <1>11, <1>12, <1>13, <1>14, <1>15 DEF TextInv

\* The buffer's timer goes with it, or lives on as an orphan.
LEMMA TakeTypes ==
  ASSUME TypeOK, NEW c \in Chats, NEW by \in {"timer", "drain"}, Take(c, by)
  PROVE  /\ buffers' \in [Chats -> Seq(TextIds)]
         /\ timer' \in [Chats -> {"none", "armed", "fired"}] /\ orphans' \in [Chats -> Nat]
         /\ Range(buffers'[c]) = {} /\ \A d \in Chats : d # c => buffers'[d] = buffers[d]
<1>1. <<>> \in Seq(TextIds) /\ Range(<<>>) = {}
  BY EmptySeq, RangeEmpty
<1>2. QED
  BY <1>1 DEF Take, TypeOK

\* A timer goroutine flushes its chat.
LEMMA FlushStepInv ==
  ASSUME IInv, NEW c \in Chats, Flush(c)
  PROVE  IInv'
<1>1. /\ UNCHANGED <<texts, files, poll, fileQueue, delivered, main, todo, listed>>
      /\ firing' \in [Chats -> Nat]
  BY DEF Flush, stop, IInv, TypeOK
<1>2. CASE buffers[c] = <<>>
  <2>1. UNCHANGED <<flights, buffers, timer, orphans>>
    BY <1>2 DEF Flush
  <2>2. TextInv' /\ FileInv' /\ FilesKept'
    BY <1>1, <2>1, TextsStay, FilesStay DEF IInv
  <2>3. DrainInv'
    BY <1>1, <2>1 DEF IInv, DrainInv
  <2>4. TypeOK'
    BY <1>1, <2>1, CountsStay DEF IInv, TypeOK
  <2>5. QED
    BY <2>2, <2>3, <2>4 DEF IInv
<1>3. CASE buffers[c] # <<>>
  <2>1. Take(c, "timer")
    BY <1>3 DEF Flush
  <2>2. TextInv' /\ FileInv' /\ FilesKept' /\ flights' \subseteq Flight
    BY <1>1, <1>3, <2>1, TakeStep
  <2>3. /\ buffers' \in [Chats -> Seq(TextIds)]
        /\ timer' \in [Chats -> {"none", "armed", "fired"}] /\ orphans' \in [Chats -> Nat]
        /\ Range(buffers'[c]) = {} /\ \A d \in Chats : d # c => buffers'[d] = buffers[d]
    BY <2>1, TakeTypes DEF IInv
  <2>4. DrainInv'
    BY <1>1, <2>3 DEF IInv, DrainInv
  <2>5. TypeOK'
    BY <1>1, <2>2, <2>3, CountsStay DEF IInv, TypeOK
  <2>6. QED
    BY <2>2, <2>4, <2>5 DEF IInv
<1>4. QED
  BY <1>2, <1>3

\* The drain flushes one of the chats it had listed.
LEMMA DrainStep ==
  ASSUME IInv, NEW c \in Chats, DrainChat(c)
  PROVE  IInv'
<1>1. /\ UNCHANGED <<texts, files, poll, firing, fileQueue, delivered, main, listed>>
      /\ todo' = todo \ {c}
  BY DEF DrainChat
<1>2. CASE buffers[c] = <<>>
  <2>1. UNCHANGED <<flights, buffers, timer, orphans>>
    BY <1>2 DEF DrainChat
  <2>2. TextInv' /\ FileInv' /\ FilesKept'
    BY <1>1, <2>1, TextsStay, FilesStay DEF IInv
  <2>3. Range(buffers'[c]) = {}
    BY <1>2, <2>1, RangeEmpty
  <2>4. DrainInv'
    BY <1>1, <2>1, <2>3 DEF IInv, DrainInv
  <2>5. TypeOK'
    BY <1>1, <2>1, CountsStay DEF IInv, TypeOK
  <2>6. QED
    BY <2>2, <2>4, <2>5 DEF IInv
<1>3. CASE buffers[c] # <<>>
  <2>1. Take(c, "drain")
    BY <1>3 DEF DrainChat
  <2>2. TextInv' /\ FileInv' /\ FilesKept' /\ flights' \subseteq Flight
    BY <1>1, <1>3, <2>1, TakeStep
  <2>3. /\ buffers' \in [Chats -> Seq(TextIds)]
        /\ timer' \in [Chats -> {"none", "armed", "fired"}] /\ orphans' \in [Chats -> Nat]
        /\ Range(buffers'[c]) = {} /\ \A d \in Chats : d # c => buffers'[d] = buffers[d]
    BY <2>1, TakeTypes DEF IInv
  <2>4. DrainInv'
    BY <1>1, <2>3 DEF IInv, DrainInv
  <2>5. TypeOK'
    BY <1>1, <2>2, <2>3, CountsStay DEF IInv, TypeOK
  <2>6. QED
    BY <2>2, <2>4, <2>5 DEF IInv
<1>4. QED
  BY <1>2, <1>3

-----------------------------------------------------------------------------
\* A message takes the files of its user and chat: its texts stay its own.
LEMMA PopFilesStep ==
  ASSUME IInv, NEW f \in flights, PopFiles(f)
  PROVE  IInv'
<1> DEFINE Q  == fileQueue[f.msg.chat][f.msg.user]
           m0 == [f.msg EXCEPT !.files = Q]
           g0 == [msg |-> m0, step |-> "send", by |-> f.by]
<1>1. f \in Flight /\ f.msg \in Message /\ f.msg.files = {} /\ f.msg \in Outgoing
  BY DEF PopFiles, IInv, TypeOK, Flight, FileInv, Outgoing
<1>2. f.msg.chat \in Chats /\ f.msg.user \in Users /\ Q \subseteq FileIds
  BY <1>1 DEF Message, IInv, TypeOK
<1>3. /\ g0 \in Flight /\ g0.step = "send" /\ g0.msg = m0 /\ m0 \in Message
      /\ m0.chat = f.msg.chat /\ m0.user = f.msg.user /\ m0.texts = f.msg.texts /\ m0.files = Q
  <2>1. f.by \in {"timer", "drain"} /\ f.msg.texts \in Seq(Nat \ {0}) /\ f.msg.texts # <<>>
    BY <1>1 DEF Flight, Message
  <2>2. m0 = [chat |-> f.msg.chat, user |-> f.msg.user, texts |-> f.msg.texts, files |-> Q]
    BY <1>1 DEF Message
  <2> HIDE DEF Q, m0
  <2>3. m0 \in Message
    BY <1>2, <2>1, <2>2 DEF Message
  <2>4. QED
    BY <2>1, <2>2, <2>3 DEF Flight
<1>4. /\ flights' = (flights \ {f}) \cup {g0} /\ delivered' = delivered
      /\ UNCHANGED <<texts, files, poll, buffers, timer, orphans, firing, main, todo, listed>>
  BY DEF PopFiles, debounce, stop
<1>5. /\ fileQueue' \in [Chats -> [Users -> SUBSET FileIds]]
      /\ fileQueue'[f.msg.chat][f.msg.user] = {}
      /\ \A c \in Chats, u \in Users :
           <<c, u>> # <<f.msg.chat, f.msg.user>> => fileQueue'[c][u] = fileQueue[c][u]
  <2>1. fileQueue \in [Chats -> [Users -> SUBSET FileIds]]
    BY DEF IInv, TypeOK
  <2>2. fileQueue' = [fileQueue EXCEPT ![f.msg.chat][f.msg.user] = {}]
    BY DEF PopFiles
  <2>3. QED
    BY <1>2, <2>1, <2>2
<1> HIDE DEF g0, m0, Q
<1>6. Range(f.msg.texts) # {}
  BY <1>1, MessageTexts
<1>7. /\ \A g \in flights : g # f => Range(g.msg.texts) \cap Range(f.msg.texts) = {}
      /\ \A m \in delivered : Range(m.texts) \cap Range(f.msg.texts) = {}
  BY DEF IInv, TextInv, FlightInv
<1>8. /\ \A g \in flights : g # f => g.msg # f.msg
      /\ f.msg \notin delivered
  BY <1>6, <1>7
<1>9. Outgoing' = (Outgoing \ {f.msg}) \cup {m0}
  BY <1>3, <1>4, <1>8 DEF Outgoing
<1>10. FlightInv'
  BY <1>3, <1>4, <1>7 DEF IInv, TextInv, FlightInv
<1>11. /\ \A d \in Chats : InChat(d)' = InChat(d)
       /\ Stored' = Stored
  BY <1>4 DEF InChat, Stored
<1>12. BufferInv'
  BY <1>4, <1>11 DEF IInv, TextInv, BufferInv
<1>13. TextsKept'
  <2>1. ASSUME NEW i \in 1..Len(texts)
        PROVE  /\ (\E d \in Chats : i \in Range(buffers[d]))
                    <=> ~ \E m \in Outgoing' : i \in Range(m.texts)
               /\ \A d, e \in Chats : i \in Range(buffers[d]) \cap Range(buffers[e]) => d = e
               /\ \A m, k \in Outgoing' : i \in Range(m.texts) \cap Range(k.texts) => m = k
    <3>1. /\ (\E d \in Chats : i \in Range(buffers[d]))
               <=> ~ \E m \in Outgoing : i \in Range(m.texts)
          /\ \A d, e \in Chats : i \in Range(buffers[d]) \cap Range(buffers[e]) => d = e
          /\ \A m, k \in Outgoing : i \in Range(m.texts) \cap Range(k.texts) => m = k
      BY DEF IInv, TextInv, TextsKept
    <3>2. (\E m \in Outgoing' : i \in Range(m.texts)) <=> \E m \in Outgoing : i \in Range(m.texts)
      BY <1>1, <1>3, <1>9
    <3>3. ASSUME NEW m \in Outgoing', NEW k \in Outgoing',
                 i \in Range(m.texts) \cap Range(k.texts)
          PROVE  m = k
      <4>1. m = m0 \/ (m \in Outgoing /\ m # f.msg)
        BY <1>9
      <4>2. k = m0 \/ (k \in Outgoing /\ k # f.msg)
        BY <1>9
      <4>3. QED
        BY <1>1, <1>3, <3>1, <3>3, <4>1, <4>2
    <3>4. QED
      BY <3>1, <3>2, <3>3
  <2>2. ASSUME NEW m \in Outgoing'
        PROVE  \A i, j \in 1..Len(m.texts) : m.texts[i] = m.texts[j] => i = j
    BY <1>1, <1>3, <1>9 DEF IInv, TextInv, TextsKept
  <2>3. QED
    BY <1>4, <2>1, <2>2 DEF TextsKept
<1>14. RunsOfTexts'
  <2>1. ASSUME NEW m \in Outgoing'
        PROVE  \E k \in Outgoing : m.chat = k.chat /\ m.texts = k.texts
    BY <1>1, <1>3, <1>9
  <2>2. \A d : InChat(d)' = InChat(d)
    BY <1>4 DEF InChat
  <2>3. ASSUME NEW m \in Outgoing'
        PROVE  /\ Range(m.texts) \subseteq InChat(m.chat)
               /\ \A i, j \in 1..Len(m.texts) : i < j => m.texts[i] < m.texts[j]
               /\ \A t \in InChat(m.chat) :
                    t > m.texts[1] /\ t < m.texts[Len(m.texts)] => t \in Range(m.texts)
    <3>1. PICK k \in Outgoing : m.chat = k.chat /\ m.texts = k.texts
      BY <2>1
    <3>2. /\ Range(k.texts) \subseteq InChat(k.chat)
          /\ \A i, j \in 1..Len(k.texts) : i < j => k.texts[i] < k.texts[j]
          /\ \A t \in InChat(k.chat) :
               t > k.texts[1] /\ t < k.texts[Len(k.texts)] => t \in Range(k.texts)
      BY DEF IInv, TextInv, RunsOfTexts
    <3>3. QED
      BY <3>1, <3>2
  <2>4. QED
    BY <2>2, <2>3 DEF RunsOfTexts
<1>15. FileInv'
  <2>1. \A c \in Chats, u \in Users : fileQueue'[c][u] \subseteq fileQueue[c][u]
    BY <1>5
  <2>2. Q \subseteq Stored
    BY <1>2 DEF Q, IInv, FileInv
  <2>3. \A m \in Outgoing' : m.files \subseteq Stored
    BY <1>3, <1>9, <2>2 DEF IInv, FileInv
  <2>4. \A g \in flights' : g.step = "pop" => g.msg.files = {}
    BY <1>3, <1>4 DEF IInv, FileInv
  <2>5. \A c \in Chats, u \in Users : fileQueue'[c][u] \subseteq Stored
    BY <2>1 DEF IInv, FileInv
  <2>6. QED
    BY <1>4, <1>11, <2>3, <2>4, <2>5 DEF IInv, FileInv
<1>16. FilesKept'
  <2>1. ASSUME NEW n \in Stored
        PROVE  LET o    == files[n]
                   with == {m \in Outgoing' : n \in m.files}
               IN /\ \A m \in with : m.chat = o.chat /\ m.user = o.user
                  /\ \A c \in Chats, u \in Users :
                       n \in fileQueue'[c][u] => c = o.chat /\ u = o.user /\ with = {}
                  /\ \A m, k \in with : m = k
                  /\ with = {} => n \in fileQueue'[o.chat][o.user]
    <3> DEFINE o    == files[n]
               had  == {m \in Outgoing : n \in m.files}
               with == {m \in Outgoing' : n \in m.files}
    <3>1. /\ \A m \in had : m.chat = o.chat /\ m.user = o.user
          /\ \A c \in Chats, u \in Users :
               n \in fileQueue[c][u] => c = o.chat /\ u = o.user /\ had = {}
          /\ \A m, k \in had : m = k
          /\ had = {} => n \in fileQueue[o.chat][o.user]
      BY DEF IInv, FilesKept, Stored
    <3>2. o.chat \in Chats /\ o.user \in Users
      <4>1. files \in Seq(Origin) /\ n \in 1..Len(files)
        BY DEF IInv, TypeOK, Stored
      <4>2. o \in Origin
        BY <4>1, ElementOfSeq
      <4>3. QED
        BY <4>2 DEF Origin
    <3>3. CASE n \in Q
      <4>1. f.msg.chat = o.chat /\ f.msg.user = o.user /\ had = {}
        BY <1>2, <3>1, <3>3 DEF Q
      <4>2. with = {m0}
        BY <1>3, <1>9, <3>3, <4>1
      <4>3. \A c \in Chats, u \in Users : n \notin fileQueue'[c][u]
        BY <1>2, <1>5, <3>1, <3>3, <4>1
      <4> HIDE DEF with, o
      <4>4. /\ \A m \in with : m.chat = o.chat /\ m.user = o.user
            /\ \A m, k \in with : m = k
            /\ with # {}
        BY <1>3, <4>1, <4>2
      <4>5. QED
        BY <4>3, <4>4 DEF with, o
    <3>4. CASE n \notin Q
      <4>1. with = had
        BY <1>1, <1>3, <1>9, <3>4
      <4>2. \A c \in Chats, u \in Users : n \in fileQueue'[c][u] <=> n \in fileQueue[c][u]
        BY <1>2, <1>5, <3>4 DEF Q
      <4> HIDE DEF with, o, had
      <4>3. QED
        BY <3>1, <3>2, <4>1, <4>2 DEF with, o
    <3>5. QED
      BY <3>3, <3>4
  <2>2. QED
    BY <1>4, <1>11, <2>1 DEF FilesKept, Stored
<1>17. DrainInv'
  BY <1>4 DEF IInv, DrainInv
<1>18. TypeOK'
  <2>1. flights' \subseteq Flight
    BY <1>3, <1>4 DEF IInv, TypeOK
  <2>2. QED
    BY <1>4, <1>5, <2>1, CountsStay DEF IInv, TypeOK
<1>19. QED
  BY <1>10, <1>12, <1>13, <1>14, <1>15, <1>16, <1>17, <1>18 DEF IInv, TextInv

\* A message is sent: it was outgoing, and still is.
LEMMA SendStep ==
  ASSUME IInv, NEW f \in flights, Send(f)
  PROVE  IInv'
<1>1. /\ delivered' = delivered \cup {f.msg} /\ flights' = flights \ {f}
      /\ UNCHANGED <<texts, files, poll, buffers, timer, orphans, firing, fileQueue,
                     main, todo, listed>>
  BY DEF Send, debounce, stop
<1>2. Outgoing' = Outgoing
  BY <1>1 DEF Outgoing
<1>3. /\ \A d : InChat(d)' = InChat(d)
      /\ Stored' = Stored
  BY <1>1 DEF InChat, Stored
<1>4. FlightInv'
  BY <1>1 DEF IInv, TextInv, FlightInv
<1>5. BufferInv'
  BY <1>1, <1>3 DEF IInv, TextInv, BufferInv
<1>6. TextsKept'
  BY <1>1, <1>2 DEF IInv, TextInv, TextsKept
<1>7. RunsOfTexts'
  BY <1>2, <1>3 DEF IInv, TextInv, RunsOfTexts
<1>8. FileInv' /\ FilesKept'
  BY <1>1, <1>2, <1>3 DEF IInv, FileInv, FilesKept
<1>9. DrainInv'
  BY <1>1 DEF IInv, DrainInv
<1>10. TypeOK'
  <2>1. f.msg \in Message
    BY DEF IInv, TypeOK, Flight
  <2>2. flights' \subseteq Flight /\ delivered' \subseteq Message
    BY <1>1, <2>1 DEF IInv, TypeOK
  <2>3. QED
    BY <1>1, <2>2, CountsStay DEF IInv, TypeOK
<1>11. QED
  BY <1>4, <1>5, <1>6, <1>7, <1>8, <1>9, <1>10 DEF IInv, TextInv

-----------------------------------------------------------------------------
\* A step of a timer, of the poller's end or of Stop that moves nothing.
LEMMA QuietStep ==
  ASSUME IInv,
         UNCHANGED <<texts, files, buffers, flights, fileQueue, delivered>>,
         poll' = poll \/ (poll = "select" /\ poll' = "gone"),
         timer' \in [Chats -> {"none", "armed", "fired"}],
         orphans' \in [Chats -> Nat], firing' \in [Chats -> Nat],
         main' \in {"up", "draining", "cancelled", "closed", "exited"},
         todo' \subseteq Chats, listed' \in 0..Len(texts), DrainInv'
  PROVE  IInv'
<1>1. TextInv'
  BY TextsStay DEF IInv
<1>2. Stored' = Stored /\ Outgoing' = Outgoing
  BY DEF Stored, Outgoing
<1>3. FileInv'
  BY <1>2 DEF IInv, FileInv
<1>4. FilesKept'
  BY <1>2 DEF IInv, FilesKept, Stored
<1>5. TypeOK'
  BY CountsStay DEF IInv, TypeOK
<1>6. QED
  BY <1>1, <1>3, <1>4, <1>5 DEF IInv

\* A timer starts its goroutine.
LEMMA FireStep ==
  ASSUME IInv, NEW c \in Chats, TimerFires(c) \/ OrphanFires(c)
  PROVE  IInv'
<1>1. UNCHANGED <<texts, files, poll, buffers, flights, fileQueue, delivered, main, todo, listed>>
  BY DEF TimerFires, OrphanFires, stop
<1>2. DrainInv'
  BY <1>1 DEF IInv, DrainInv
<1>3. /\ timer' \in [Chats -> {"none", "armed", "fired"}]
      /\ orphans' \in [Chats -> Nat] /\ firing' \in [Chats -> Nat]
  <2>1. /\ timer \in [Chats -> {"none", "armed", "fired"}]
        /\ orphans \in [Chats -> Nat] /\ firing \in [Chats -> Nat]
    BY DEF IInv, TypeOK
  <2>2. CASE TimerFires(c)
    BY <2>1, <2>2 DEF TimerFires
  <2>3. CASE OrphanFires(c)
    BY <2>1, <2>3 DEF OrphanFires
  <2>4. QED
    BY <2>2, <2>3
<1>4. QED
  BY <1>1, <1>2, <1>3, QuietStep DEF IInv, TypeOK

\* The poller ends, Stop goes on, or a send panics.
LEMMA StopStepInv ==
  ASSUME IInv,
         PollEnds \/ StopBegins \/ CancelPoll \/ Close \/ Exit \/ \E f \in flights : SendPanics(f)
  PROVE  IInv'
<1>1. UNCHANGED <<texts, files, buffers, timer, orphans, firing, flights, fileQueue, delivered>>
  BY DEF PollEnds, StopBegins, CancelPoll, Close, Exit, SendPanics, debounce
<1>2. poll' = poll \/ (poll = "select" /\ poll' = "gone")
  BY DEF PollEnds, StopBegins, CancelPoll, Close, Exit, SendPanics
<1>3. CASE StopBegins
  <2>1. main' = "draining" /\ todo' = {c \in Chats : buffers[c] # <<>>} /\ listed' = Len(texts)
    BY <1>3 DEF StopBegins
  <2>2. DrainInv'
    BY <1>1, <2>1, RangeEmpty DEF DrainInv
  <2>3. Len(texts) \in Nat
    BY LenProperties DEF IInv, TypeOK
  <2>4. QED
    BY <1>1, <1>2, <2>1, <2>2, <2>3, QuietStep DEF IInv, TypeOK
<1>4. CASE ~StopBegins
  <2>1. UNCHANGED <<todo, listed>>
    BY <1>4 DEF PollEnds, CancelPoll, Close, Exit, SendPanics, stop
  <2>2. main' = main \/ (main = "draining" /\ todo = {} /\ main' = "cancelled")
        \/ (main = "cancelled" /\ main' = "closed") \/ (main = "closed" /\ main' = "exited")
    BY <1>4 DEF PollEnds, CancelPoll, Close, Exit, SendPanics, stop
  <2>3. DrainInv'
    BY <1>1, <2>1, <2>2 DEF IInv, DrainInv
  <2>4. QED
    BY <1>1, <1>2, <2>1, <2>2, <2>3, QuietStep DEF IInv, TypeOK
<1>5. QED
  BY <1>3, <1>4

-----------------------------------------------------------------------------
\* Every step keeps the invariant.
LEMMA NextIInv == IInv /\ [Next]_vars => IInv'
<1> SUFFICES ASSUME IInv, [Next]_vars PROVE IInv'
  OBVIOUS
<1>1. CASE PollStep
  <2>1. ASSUME NEW c \in Chats, NEW u \in Members[c], BufferMessage(c, u) \/ Upload(c, u)
        PROVE  IInv'
    BY <2>1, BufferStep, UploadStep
  <2>2. QED
    BY <1>1, <2>1, QueueStep, DownloadFailsStep, StopStepInv DEF PollStep
<1>2. CASE FlushStep
  <2>1. ASSUME NEW c \in Chats, TimerFires(c) \/ OrphanFires(c) \/ Flush(c) PROVE IInv'
    BY <2>1, FireStep, FlushStepInv
  <2>2. ASSUME NEW f \in flights, PopFiles(f) \/ Send(f) \/ SendPanics(f) PROVE IInv'
    BY <2>2, PopFilesStep, SendStep, StopStepInv
  <2>3. QED
    BY <1>2, <2>1, <2>2 DEF FlushStep
<1>3. CASE StopStep
  BY <1>3, StopStepInv, DrainStep DEF StopStep
<1>4. CASE UNCHANGED vars
  <2>1. UNCHANGED <<texts, files, poll, buffers, timer, orphans, firing, flights, fileQueue,
                    delivered, main, todo, listed>>
    BY <1>4 DEF vars, debounce, stop
  <2>2. DrainInv'
    BY <2>1 DEF IInv, DrainInv
  <2>3. QED
    BY <2>1, <2>2, QuietStep DEF IInv, TypeOK
<1>5. QED
  BY <1>1, <1>2, <1>3, <1>4 DEF Next

LEMMA Invariant == Spec => []IInv
BY InitIInv, NextIInv, PTL DEF Spec

\* The source's state has its type, however many timers were orphaned.
THEOREM TypeCorrect == Spec => []TypeOK
<1>1. IInv => TypeOK
  BY DEF IInv
<1>2. QED
  BY <1>1, Invariant, PTL

\* bufferMessage, flushBuffer and drainBuffers, whatever timer goroutines race with
\* them, neither lose a text nor send it twice.
THEOREM TextsAreKept == Spec => []TextsKept
<1>1. IInv => TextsKept
  BY DEF IInv, TextInv
<1>2. QED
  BY <1>1, Invariant, PTL

\* A flushed message is a run of its chat's texts, in their order.
THEOREM TextsStayInOrder == Spec => []RunsOfTexts
<1>1. IInv => RunsOfTexts
  BY DEF IInv, TextInv
<1>2. QED
  BY <1>1, Invariant, PTL

\* queueFile and popQueuedFiles attach a file once, to its owner's message.
THEOREM FilesAreKept == Spec => []FilesKept
<1>1. IInv => FilesKept
  BY DEF IInv
<1>2. QED
  BY <1>1, Invariant, PTL

\* drainBuffers leaves behind only what was received after it had listed the chats.
THEOREM DrainIsComplete == Spec => []DrainCoversListed
<1>1. IInv => DrainCoversListed
  BY DEF IInv, DrainInv, DrainCoversListed
<1>2. QED
  BY <1>1, Invariant, PTL
=============================================================================
