---------------------------- MODULE PapersProofs ----------------------------
(***************************************************************************)
(* What a search adds is linked to it, for any number of calls on any      *)
(* number of connections, and whatever the literature databases answer.    *)
(***************************************************************************)
EXTENDS Papers, SequenceTheorems, WellFoundedInduction, TLAPS

-----------------------------------------------------------------------------
(* Numbers and sequences.                                                  *)

\* A set of numbers has a least one: what induction rests on here.
LEMMA Least ==
  ASSUME NEW T, T \subseteq Nat, T # {}
  PROVE  \E m \in T : \A k \in T : m <= k
<1> DEFINE R == OpToRel(<, Nat)
<1>1. IsWellFoundedOn(R, Nat)
  BY NatLessThanWellFounded
<1>2. PICK m \in T : \A k \in T : ~ (<<k, m>> \in R)
  <2> HIDE DEF R
  <2> QED BY <1>1, WFMin
<1>3. ASSUME NEW k \in T PROVE m <= k
  <2>1. ~ (k < m)
    BY <1>2 DEF OpToRel
  <2>2. QED
    BY <2>1
<1>4. QED
  BY <1>3

\* Below the least of them there is none.
LEMMA Before ==
  ASSUME NEW b \in Nat, NEW T \in SUBSET (0..b), NEW m \in T, m # 0, \A k \in T : m <= k
  PROVE  m - 1 \in 0..b /\ m \in 0..b /\ m - 1 \notin T
<1>1. m \in 0..b
  OBVIOUS
<1>2. ~ (m <= m - 1)
  BY <1>1
<1>3. QED
  BY <1>1, <1>2

\* Papers that a call has found stay papers, as an answer is gone through.
LEMMA UnseenType ==
  ASSUME NEW found \in Seq(Found), NEW answer \in Seq(Found)
  PROVE  Unseen(found, answer) \in Seq(Found)
<1> DEFINE
      Go(g, n) ==
        IF n = 0 THEN found
        ELSE IF \E i \in 1..Len(g[n - 1]) : g[n - 1][i].fp = answer[n].fp
        THEN g[n - 1]
        ELSE Append(g[n - 1], answer[n])
      Defined(m, g) == g \in [0..m -> Seq(Found)] /\ \A n \in 0..m : g[n] = Go(g, n)
      after == CHOOSE g : g = [n \in 0..Len(answer) |-> Go(g, n)]
<1>1. Len(answer) \in Nat /\ \A n \in 1..Len(answer) : answer[n] \in Found
  BY LenProperties, ElementOfSeq
<1>2. ASSUME NEW m \in 0..Len(answer), NEW g, NEW s \in Seq(Found), g[m - 1] = s, m # 0
      PROVE  Go(g, m) \in Seq(Found)
  <2>1. Append(s, answer[m]) \in Seq(Found)
    BY <1>1, <1>2, AppendProperties
  <2>2. QED
    BY <1>2, <2>1
<1>3. \A m \in 0..Len(answer) : \E g : Defined(m, g)
  <2> DEFINE T == {m \in 0..Len(answer) : ~ \E g : Defined(m, g)}
  <2>1. SUFFICES ASSUME T # {} PROVE FALSE
    OBVIOUS
  <2>2. T \subseteq Nat
    BY <1>1
  <2>3. PICK m \in T : \A k \in T : m <= k
    <3> HIDE DEF T
    <3> QED BY <2>1, <2>2, Least
  <2>4. m # 0
    <3>1. Defined(0, [n \in 0..0 |-> found])
      OBVIOUS
    <3>2. QED
      BY <3>1
  <2>5. m - 1 \in 0..Len(answer) /\ m \in 0..Len(answer) /\ m - 1 \notin T
    BY <1>1, <2>3, <2>4, Before
  <2>6. PICK g : Defined(m - 1, g)
    BY <2>5
  <2> DEFINE h == [n \in 0..m |-> IF n = m THEN Go(g, m) ELSE g[n]]
  <2>7. Go(g, m) \in Seq(Found)
    BY <1>2, <2>4, <2>5, <2>6
  <2>8. \A n \in 0..m : n = m \/ n \in 0..(m - 1)
    BY <2>5
  <2>9. h \in [0..m -> Seq(Found)]
    BY <2>6, <2>7, <2>8
  <2>10. ASSUME NEW n \in 0..m PROVE h[n] = Go(h, n)
    <3>1. n = 0 \/ (n - 1 \in 0..m /\ n - 1 # m)
      BY <2>5
    <3>2. n # 0 => h[n - 1] = g[n - 1]
      BY <3>1
    <3>3. Go(h, n) = Go(g, n)
      <4> HIDE DEF h
      <4>1. CASE n = 0
        BY <4>1
      <4>2. CASE n # 0
        <5>1. h[n - 1] = g[n - 1]
          BY <3>2, <4>2
        <5>2. QED
          BY <5>1, Zenon
      <4>3. QED
        BY <4>1, <4>2
    <3>4. h[n] = Go(g, n)
      BY <2>6, <2>8
    <3>5. QED
      BY <3>3, <3>4
  <2>11. Defined(m, h)
    BY <2>9, <2>10
  <2>12. QED
    BY <2>11
<1>4. \E g : g = [n \in 0..Len(answer) |-> Go(g, n)]
  <2>1. Len(answer) \in 0..Len(answer)
    BY <1>1
  <2>2. PICK g : Defined(Len(answer), g)
    BY <1>3, <2>1
  <2>3. QED
    BY <2>2
<1>5. after = [n \in 0..Len(answer) |-> Go(after, n)]
  BY <1>4
<1>6. \A m \in 0..Len(answer) : after[m] \in Seq(Found)
  <2> HIDE DEF after
  <2> DEFINE T == {m \in 0..Len(answer) : after[m] \notin Seq(Found)}
  <2>1. SUFFICES ASSUME T # {} PROVE FALSE
    OBVIOUS
  <2>2. T \subseteq Nat
    BY <1>1
  <2>3. PICK m \in T : \A k \in T : m <= k
    <3> HIDE DEF T
    <3> QED BY <2>1, <2>2, Least
  <2>4. after[m] = Go(after, m)
    BY <1>5
  <2>5. m # 0
    BY <2>4
  <2>6. m - 1 \in 0..Len(answer) /\ m \in 0..Len(answer) /\ m - 1 \notin T
    BY <1>1, <2>3, <2>5, Before
  <2>7. PICK s \in Seq(Found) : s = after[m - 1]
    BY <2>6
  <2>8. QED
    BY <1>2, <2>3, <2>4, <2>5, <2>6, <2>7
<1>7. Unseen(found, answer) = after[Len(answer)]
  BY DEF Unseen
<1>8. Len(answer) \in 0..Len(answer)
  BY <1>1
<1>9. QED
  <2> HIDE DEF after
  <2>1. QED
    BY <1>6, <1>7, <1>8
-----------------------------------------------------------------------------
(* The invariant.                                                          *)

\* The tables alone.
TablesOK ==
  /\ papers \in Seq(Found) /\ searches \in Seq(1..NTopics)
  /\ searchPapers \in Seq((1..Len(searches)) \X (1..Len(papers)))
  /\ paperTopics \in Seq((1..Len(papers)) \X (1..NTopics))
  /\ lastId \in [Conns -> Nat]
  /\ withPdf \subseteq files /\ files \subseteq 1..Len(papers)
  /\ made \in 0..MaxCalls

\* An id that a call knows as that of a paper it added is the paper's.
Known(call) ==
  \A i \in 1..Len(call.ids) : call.stored[i].new =>
    call.ids[i] \in 1..Len(papers) /\ papers[call.ids[i]] = call.stored[i].paper

\* What a call has left to link are the last of its ids; those before are linked,
\* unless a link failed, and the first of those left to the search if it is the turn
\* of the topic.
Linking(call) ==
  LET n == Len(call.ids) - Len(call.todo) IN
  /\ call.search \in 1..Len(searches) /\ call.topic \in 1..NTopics
  /\ n >= 0 /\ \A j \in 1..Len(call.todo) : call.todo[j] = call.ids[n + j]
  /\ call.pc = "topic" => call.todo # <<>>
  /\ ~call.failed =>
       /\ \A i \in 1..n : call.stored[i].new =>
            /\ Contains(searchPapers, <<call.search, call.ids[i]>>)
            /\ Contains(paperTopics, <<call.ids[i], call.topic>>)
       /\ call.pc = "topic" /\ call.stored[n + 1].new =>
            Contains(searchPapers, <<call.search, call.ids[n + 1]>>)

Sound(call) ==
  /\ call.pc = "query" => call.queries # 0
  /\ call.pc = "lookup" => call.found # <<>>
  /\ call.pc \in {"fetch", "update"} => call.search \in 1..Len(papers)
  /\ call.pc = "update" => call.search \in files
  /\ Len(call.ids) = Len(call.stored) /\ Known(call)
  /\ call.pc \in {"link", "topic"} => Linking(call)

IInv == TypeOK /\ \A c \in Callers : Sound(calls[c])

-----------------------------------------------------------------------------
(* What a step may do to the tables, and to a call.                        *)

\* The tables grow, row by row.
Grown ==
  /\ Len(papers) <= Len(papers') /\ \A i \in 1..Len(papers) : papers'[i] = papers[i]
  /\ Len(searches) <= Len(searches') /\ files \subseteq files'
  /\ \A p : Contains(searchPapers, p) => Contains(searchPapers', p)
  /\ \A p : Contains(paperTopics, p) => Contains(paperTopics', p)

\* At the beginning nothing is found, stored or linked.
LEMMA InitIInv ==
  ASSUME ConstantsAssumption, Init
  PROVE  IInv
<1>1. Idle \in Call
  BY EmptySeq DEF Idle, Call, ConstantsAssumption
<1>2. Len(<<>>) = 0 /\ <<>> \in Seq(Found) /\ \A S : <<>> \in Seq(S)
  BY EmptySeq
<1>3. TypeOK
  BY <1>1, <1>2 DEF Init, TypeOK, ConstantsAssumption, Idle
<1>4. Sound(Idle)
  BY <1>2 DEF Sound, Known, Idle
<1>5. QED
  BY <1>3, <1>4 DEF IInv, Init

\* Lengths are numbers, and a call is a record of its type.
LEMMA Types ==
  ASSUME ConstantsAssumption, IInv, NEW c \in Callers
  PROVE  /\ calls[c] \in Call /\ Sound(calls[c]) /\ TablesOK
         /\ Len(papers) \in Nat /\ Len(searches) \in Nat
BY LenProperties DEF IInv, TypeOK, TablesOK

\* Its sequences have lengths, and ids are numbers.
LEMMA CallTypes ==
  ASSUME NEW x \in Call
  PROVE  /\ Len(x.ids) \in Nat /\ Len(x.todo) \in Nat /\ Len(x.found) \in Nat
         /\ \A i \in 1..Len(x.ids) : x.ids[i] \in Nat
         /\ \A i \in 1..Len(x.todo) : x.todo[i] \in Nat
BY LenProperties, ElementOfSeq DEF Call

\* What is said of a call stays true as the tables grow.
LEMMA SoundStays ==
  ASSUME Grown, Len(papers) \in Nat, Len(papers') \in Nat, Len(searches) \in Nat,
         Len(searches') \in Nat, NEW x, Sound(x)
  PROVE  Sound(x)'
<1>1. \A i \in 1..Len(papers) : i \in 1..Len(papers') /\ papers'[i] = papers[i]
  BY DEF Grown
<1>2. Known(x)'
  BY <1>1 DEF Sound, Known
<1>3. x.pc \in {"link", "topic"} => Linking(x)'
  <2>1. SUFFICES ASSUME x.pc \in {"link", "topic"} PROVE Linking(x)'
    OBVIOUS
  <2>2. Linking(x)
    BY <2>1 DEF Sound
  <2>3. x.search \in 1..Len(searches')
    BY <2>2 DEF Linking, Grown
  <2>4. QED
    BY <2>2, <2>3 DEF Linking, Grown
<1>4. x.pc \in {"fetch", "update"} => x.search \in 1..Len(papers')
  BY <1>1 DEF Sound
<1>5. x.pc = "update" => x.search \in files'
  BY DEF Sound, Grown
<1>6. QED
  BY <1>2, <1>3, <1>4, <1>5 DEF Sound

\* A step of the call c, which becomes x.
LEMMA PutKeeps ==
  ASSUME ConstantsAssumption, IInv, TablesOK', Grown, NEW c \in Callers, NEW x \in Call,
         Put(c, x), Sound(x)'
  PROVE  IInv'
<1>1. calls'[c] = x /\ \A d \in Callers : d # c => calls'[d] = calls[d]
  BY DEF Put, IInv, TypeOK
<1>2. /\ Len(papers) \in Nat /\ Len(papers') \in Nat
      /\ Len(searches) \in Nat /\ Len(searches') \in Nat
  BY LenProperties DEF IInv, TypeOK, TablesOK
<1>3. ASSUME NEW d \in Callers PROVE Sound(calls[d])'
  <2>1. CASE d = c
    BY <1>1, <2>1 DEF Sound, Known, Linking
  <2>2. CASE d # c
    <3>1. PICK y : y = calls[d]
      OBVIOUS
    <3>2. Sound(y)
      BY <3>1 DEF IInv
    <3>3. Sound(y)'
      BY <1>2, <3>2, SoundStays
    <3>4. calls'[d] = y
      BY <1>1, <2>2, <3>1
    <3>5. QED
      BY <3>3, <3>4 DEF Sound, Known, Linking
  <2>3. QED
    BY <2>1, <2>2
<1>4. calls' \in [Callers -> Call]
  BY DEF Put, IInv, TypeOK
<1>5. \A d \in Callers : Len(calls'[d].ids) = Len(calls'[d].stored)
  BY <1>3 DEF Sound
<1>6. TypeOK'
  BY <1>4, <1>5 DEF TypeOK, TablesOK
<1>7. QED
  BY <1>3, <1>6 DEF IInv

\* A step of c that leaves the tables alone.
LEMMA QuietKeeps ==
  ASSUME ConstantsAssumption, IInv, UNCHANGED <<tables, pdfs>>, made' \in 0..MaxCalls,
         NEW c \in Callers, NEW x \in Call, Put(c, x), Sound(x)
  PROVE  IInv'
<1>1. UNCHANGED <<papers, searches, searchPapers, paperTopics, lastId, files, withPdf>>
  BY DEF tables, pdfs
<1>2. TablesOK' /\ Grown
  BY <1>1, LenProperties DEF IInv, TypeOK, TablesOK, Grown
<1>3. Sound(x)'
  BY <1>1 DEF Sound, Known, Linking
<1>4. QED
  BY <1>2, <1>3, PutKeeps
-----------------------------------------------------------------------------
(* The steps of a search.                                                  *)

\* A search begins with nothing found.
LEMMA SearchKeeps ==
  ASSUME ConstantsAssumption, IInv, NEW c \in Callers, Search(c)
  PROVE  IInv'
<1>1. PICK t \in TopicArgs, q \in 1..MaxQueries :
        Put(c, [Idle EXCEPT !.pc = "query", !.topic = t, !.queries = q])
  BY DEF Search
<1>2. PICK x : x = [Idle EXCEPT !.pc = "query", !.topic = t, !.queries = q]
  OBVIOUS
<1>3. x = [pc |-> "query", topic |-> t, queries |-> q, attempt |-> 0, found |-> <<>>,
           ids |-> <<>>, todo |-> <<>>, search |-> 0, stored |-> <<>>, failed |-> FALSE]
  BY <1>2 DEF Idle
<1>4. q \in 0..MaxQueries /\ q # 0 /\ t \in Nat /\ 0 \in 0..(MaxAttempts - 1)
      /\ (\A S : <<>> \in Seq(S)) /\ Len(<<>>) = 0
  BY EmptySeq DEF ConstantsAssumption
<1>5. x \in Call
  BY <1>3, <1>4 DEF Call
<1>6. Sound(x)
  BY <1>3, <1>4 DEF Sound, Known
<1>7. made' \in 0..MaxCalls /\ UNCHANGED <<tables, pdfs>>
  BY DEF Search, IInv, TypeOK, ConstantsAssumption
<1>8. QED
  BY <1>1, <1>2, <1>5, <1>6, <1>7, QuietKeeps

\* The next query begins, or the papers are stored.
LEMMA NextQueryKeeps ==
  ASSUME ConstantsAssumption, IInv, UNCHANGED <<tables, pdfs, made>>, NEW c \in Callers,
         calls[c].pc = "query", NEW f \in Seq(Found), NextQuery(c, f)
  PROVE  IInv'
<1>1. PICK y \in Call : y = calls[c]
  BY Types
<1>2. Sound(y) /\ y.pc = "query"
  BY <1>1, Types
<1>3. PICK x : x = [y EXCEPT !.found = f, !.queries = @ - 1, !.attempt = 0,
                             !.pc = IF y.queries = 1 THEN "store" ELSE "query"]
  OBVIOUS
<1>4. Put(c, x)
  BY <1>1, <1>3 DEF NextQuery
<1>5. y.queries - 1 \in 0..MaxQueries /\ 0 \in 0..(MaxAttempts - 1)
      /\ (y.queries # 1 => y.queries - 1 # 0)
  <2>1. y.queries \in 0..MaxQueries /\ y.queries # 0
    BY <1>2 DEF Call, Sound
  <2>2. QED
    BY <2>1 DEF ConstantsAssumption
<1>6. x \in Call /\ x.pc \in {"store", "query"} /\ x.ids = y.ids /\ x.stored = y.stored
      /\ (x.pc = "query" => x.queries # 0)
  BY <1>3, <1>5 DEF Call
<1>7. Sound(x)
  BY <1>2, <1>6 DEF Sound, Known
<1>8. made' \in 0..MaxCalls
  BY DEF IInv, TypeOK
<1>9. QED
  BY <1>4, <1>6, <1>7, <1>8, QuietKeeps

\* A query brings papers, is tried again, or is given up.
LEMMA QueryKeeps ==
  ASSUME ConstantsAssumption, IInv, NEW c \in Callers, QueryStep(c)
  PROVE  IInv'
<1>1. PICK y \in Call : y = calls[c]
  BY Types
<1>2. y.found \in Seq(Found)
  BY DEF Call
<1>3. CASE QueryAnswered(c)
  <2>1. PICK a \in Answers : NextQuery(c, Unseen(y.found, a))
    BY <1>1, <1>3 DEF QueryAnswered
  <2>2. Unseen(y.found, a) \in Seq(Found)
    BY <1>2, UnseenType DEF ConstantsAssumption
  <2>3. QED
    BY <1>3, <2>1, <2>2, NextQueryKeeps DEF QueryAnswered
<1>4. CASE QueryLimited(c)
  <2>1. calls[c].pc = "query" /\ UNCHANGED <<tables, pdfs, made>> /\ made' \in 0..MaxCalls
    BY <1>4 DEF QueryLimited, IInv, TypeOK
  <2>2. CASE y.attempt < MaxAttempts - 1
    <3>1. PICK x : x = [y EXCEPT !.attempt = @ + 1]
      OBVIOUS
    <3>2. Put(c, x)
      BY <1>1, <1>4, <2>2, <3>1 DEF QueryLimited
    <3>3. y.attempt + 1 \in 0..(MaxAttempts - 1)
      <4>1. y.attempt \in 0..(MaxAttempts - 1)
        BY DEF Call
      <4>2. QED
        BY <2>2, <4>1 DEF ConstantsAssumption
    <3>4. x \in Call /\ x.pc = y.pc /\ x.queries = y.queries /\ x.ids = y.ids
          /\ x.stored = y.stored
      BY <3>1, <3>3 DEF Call
    <3>5. Sound(x)
      BY <1>1, <2>1, <3>4, Types DEF Sound, Known
    <3>6. QED
      BY <2>1, <3>2, <3>4, <3>5, QuietKeeps
  <2>3. CASE ~(y.attempt < MaxAttempts - 1)
    <3>1. NextQuery(c, y.found)
      BY <1>1, <1>4, <2>3 DEF QueryLimited
    <3>2. QED
      BY <1>2, <2>1, <3>1, NextQueryKeeps
  <2>4. QED
    BY <2>2, <2>3
<1>5. CASE QueryFails(c)
  BY <1>1, <1>2, <1>5, NextQueryKeeps DEF QueryFails
<1>6. QED
  BY <1>3, <1>4, <1>5 DEF QueryStep

\* A paper found is stored, or left out.
LEMMA StoredKeeps ==
  ASSUME ConstantsAssumption, IInv, TablesOK', Grown, NEW c \in Callers,
         calls[c].pc \in {"store", "lookup"}, calls[c].found # <<>>,
         NEW id \in Nat, NEW new \in BOOLEAN, Stored(c, id, new),
         new => id \in 1..Len(papers') /\ papers'[id] = Head(calls[c].found)
  PROVE  IInv'
<1>1. PICK y \in Call : y = calls[c]
  BY Types
<1>2. Sound(y) /\ y.found # <<>> /\ y.found \in Seq(Found) /\ y.pc \in {"store", "lookup"}
  BY <1>1, Types DEF Call
<1>3. PICK p \in Found : p = Head(y.found)
  BY <1>2, HeadTailProperties
<1>4. PICK f \in Seq(Found) : f = Tail(y.found)
  BY <1>2, HeadTailProperties
<1>5. PICK r : r = [paper |-> p, new |-> new]
  OBVIOUS
<1>6. r \in [paper : Found, new : BOOLEAN] /\ r.paper = p /\ r.new = new
  BY <1>5
<1>7. PICK ids : ids = IF id = 0 THEN y.ids ELSE Append(y.ids, id)
  OBVIOUS
<1>8. PICK stored : stored = IF id = 0 THEN y.stored ELSE Append(y.stored, r)
  OBVIOUS
<1>9. PICK x : x = [y EXCEPT !.pc = "store", !.found = f, !.ids = ids, !.stored = stored]
  OBVIOUS
<1>10. Put(c, x)
  BY <1>1, <1>3, <1>4, <1>5, <1>7, <1>8, <1>9 DEF Stored
<1>11. Sound(y)'
  BY <1>2, SoundStays, LenProperties DEF IInv, TypeOK, TablesOK
<1>12. y.ids \in Seq(Nat) /\ y.stored \in Seq([paper : Found, new : BOOLEAN])
       /\ Len(y.ids) = Len(y.stored)
  BY <1>2 DEF Call, Sound
<1>13. PICK n \in Nat : n = Len(y.ids)
  BY <1>12, LenProperties
<1>14. ids \in Seq(Nat) /\ stored \in Seq([paper : Found, new : BOOLEAN])
       /\ Len(ids) = Len(stored)
       /\ \A i \in 1..Len(ids) : stored[i].new =>
            ids[i] \in 1..Len(papers') /\ papers'[ids[i]] = stored[i].paper
  <2>1. CASE id = 0
    BY <1>7, <1>8, <1>11, <1>12, <2>1 DEF Sound, Known
  <2>2. CASE id # 0
    <3>1. ids \in Seq(Nat) /\ Len(ids) = n + 1 /\ ids[n + 1] = id
          /\ \A i \in 1..n : ids[i] = y.ids[i]
      BY <1>7, <1>12, <1>13, <2>2, AppendProperties
    <3>2. /\ stored \in Seq([paper : Found, new : BOOLEAN]) /\ Len(stored) = n + 1
          /\ stored[n + 1] = r /\ \A i \in 1..n : stored[i] = y.stored[i]
      BY <1>6, <1>8, <1>12, <1>13, <2>2, AppendProperties
    <3>3. \A i \in 1..(n + 1) : i \in 1..n \/ i = n + 1
      OBVIOUS
    <3>4. ASSUME NEW i \in 1..(n + 1), stored[i].new
          PROVE  ids[i] \in 1..Len(papers') /\ papers'[ids[i]] = stored[i].paper
      <4>1. CASE i \in 1..n
        BY <1>11, <1>13, <3>1, <3>2, <3>4, <4>1 DEF Sound, Known
      <4>2. CASE i = n + 1
        BY <1>1, <1>3, <1>6, <3>1, <3>2, <3>4, <4>2
      <4>3. QED
        BY <3>3, <4>1, <4>2
    <3>5. QED
      BY <3>1, <3>2, <3>4
  <2>3. QED
    BY <2>1, <2>2
<1>15. x \in Call /\ x.pc = "store" /\ x.ids = ids /\ x.stored = stored
  BY <1>9, <1>14 DEF Call
<1>16. Sound(x)'
  BY <1>14, <1>15 DEF Sound, Known
<1>17. QED
  BY <1>10, <1>15, <1>16, PutKeeps
\* The tables when nothing happens to them but more rows.
LEMMA SameTables ==
  ASSUME IInv, UNCHANGED <<tables, pdfs, made>>
  PROVE  TablesOK' /\ Grown
<1>1. UNCHANGED <<papers, searches, searchPapers, paperTopics, lastId, files, withPdf, made>>
  BY DEF tables, pdfs
<1>2. QED
  BY <1>1, LenProperties DEF IInv, TypeOK, TablesOK, Grown

\* A new row is the last one, and its id its place.
LEMMA StorePaperKeeps ==
  ASSUME ConstantsAssumption, IInv, NEW c \in Callers, NEW d \in Conns, StorePaper(c, d)
  PROVE  IInv'
<1>1. PICK y \in Call : y = calls[c]
  BY Types
<1>2. /\ y.pc = "store" /\ y.found # <<>> /\ y.found \in Seq(Found)
      /\ UNCHANGED <<searches, searchPapers, paperTopics, pdfs, made>> /\ Sound(y)
  BY <1>1, Types DEF StorePaper, Call
<1>3. PICK p \in Found : p = Head(y.found)
  BY <1>2, HeadTailProperties
<1>4. CASE Duplicate(p)
  <2>1. UNCHANGED <<tables, pdfs, made>>
    BY <1>1, <1>2, <1>3, <1>4 DEF StorePaper, tables
  <2>2. TablesOK' /\ Grown
    BY <2>1, SameTables
  <2>3. CASE lastId[d] = 0
    <3>1. PICK x : x = [y EXCEPT !.pc = "lookup"]
      OBVIOUS
    <3>2. Put(c, x)
      BY <1>1, <1>3, <1>4, <2>3, <3>1 DEF StorePaper
    <3>3. x \in Call /\ x.pc = "lookup" /\ x.ids = y.ids /\ x.stored = y.stored /\ x.found = y.found
      BY <3>1 DEF Call
    <3>4. Sound(x)
      BY <1>2, <3>3 DEF Sound, Known
    <3>5. QED
      BY <2>1, <3>2, <3>3, <3>4, QuietKeeps DEF IInv, TypeOK
  <2>4. CASE lastId[d] # 0
    <3>1. lastId[d] \in Nat
      BY DEF IInv, TypeOK
    <3>2. Stored(c, lastId[d], FALSE)
      BY <1>1, <1>3, <1>4, <2>4 DEF StorePaper
    <3>3. QED
      BY <1>1, <1>2, <2>2, <3>1, <3>2, StoredKeeps
  <2>5. QED
    BY <2>3, <2>4
<1>5. CASE ~Duplicate(p)
  <2>1. /\ papers' = Append(papers, p) /\ lastId' = [lastId EXCEPT ![d] = Len(papers')]
        /\ Stored(c, Len(papers'), TRUE)
    BY <1>1, <1>3, <1>5 DEF StorePaper
  <2>2. PICK n \in Nat : n = Len(papers)
    BY Types
  <2>3. /\ papers' \in Seq(Found) /\ Len(papers') = n + 1 /\ papers'[n + 1] = p
        /\ \A i \in 1..n : papers'[i] = papers[i]
    BY <2>1, <2>2, AppendProperties DEF IInv, TypeOK
  <2>4. 1..n \subseteq 1..(n + 1) /\ n + 1 \in Nat /\ n + 1 \in 1..(n + 1)
    OBVIOUS
  <2>5. UNCHANGED <<searches, searchPapers, paperTopics, files, withPdf, made>>
    BY <1>2 DEF pdfs
  <2>6. Grown
    BY <2>2, <2>3, <2>5, Types DEF Grown
  <2>7. TablesOK'
    <3>1. /\ searchPapers \in Seq((1..Len(searches)) \X (1..n))
          /\ paperTopics \in Seq((1..n) \X (1..NTopics))
      BY <2>2 DEF IInv, TypeOK
    <3>2. /\ searchPapers \in Seq((1..Len(searches)) \X (1..(n + 1)))
          /\ paperTopics \in Seq((1..(n + 1)) \X (1..NTopics))
      <4>1. /\ (1..Len(searches)) \X (1..n) \subseteq (1..Len(searches)) \X (1..(n + 1))
            /\ (1..n) \X (1..NTopics) \subseteq (1..(n + 1)) \X (1..NTopics)
        BY <2>4
      <4>2. QED
        BY <3>1, <4>1, SeqMonotonic
    <3>3. lastId' \in [Conns -> Nat]
      BY <2>1, <2>3, <2>4 DEF IInv, TypeOK
    <3>4. files \subseteq 1..(n + 1)
      BY <2>2, <2>4 DEF IInv, TypeOK
    <3>5. QED
      BY <2>3, <2>5, <3>2, <3>3, <3>4 DEF IInv, TypeOK, TablesOK
  <2>8. QED
    BY <1>1, <1>2, <1>3, <2>1, <2>3, <2>4, <2>6, <2>7, StoredKeeps
<1>6. QED
  BY <1>4, <1>5

\* An id that was looked up may be any; the call has not added its paper.
LEMMA LookupKeeps ==
  ASSUME ConstantsAssumption, IInv, NEW c \in Callers, Lookup(c) \/ StoreFails(c)
  PROVE  IInv'
<1>1. TablesOK' /\ Grown
  BY SameTables DEF Lookup, StoreFails
<1>2. calls[c].pc \in {"store", "lookup"} /\ calls[c].found # <<>>
  BY Types DEF Lookup, StoreFails, Sound
<1>3. \E id \in Nat : Stored(c, id, FALSE)
  <2>1. CASE StoreFails(c)
    BY <2>1 DEF StoreFails
  <2>2. CASE Lookup(c)
    <3>1. PICK id \in {0} \cup (1..Len(papers)) : Stored(c, id, FALSE)
      BY <2>2 DEF Lookup
    <3>2. id \in Nat
      OBVIOUS
    <3>3. QED
      BY <3>1, <3>2
  <2>3. QED
    BY <2>1, <2>2
<1>4. QED
  BY <1>1, <1>2, <1>3, StoredKeeps
-----------------------------------------------------------------------------
(* The links.                                                              *)

\* A pair is in the table after INSERT OR IGNORE if its id is a paper's, and what was
\* there stays.
LEMMA LinkFacts ==
  ASSUME NEW S, NEW table \in Seq(S), NEW pair, NEW id, id \in 1..Len(papers) => pair \in S,
         NEW new, new = LinkTo(table, pair, id)
  PROVE  /\ new \in Seq(S) /\ Len(new) \in Nat
         /\ \A p : Contains(table, p) => Contains(new, p)
         /\ id \in 1..Len(papers) => Contains(new, pair)
<1>1. Len(table) \in Nat
  BY LenProperties
<1>2. CASE id \in 1..Len(papers) /\ ~Contains(table, pair)
  <2>1. PICK n \in Nat : n = Len(table)
    BY <1>1
  <2>2. /\ new \in Seq(S) /\ Len(new) = n + 1 /\ new[n + 1] = pair
        /\ \A i \in 1..n : new[i] = table[i]
    BY <1>2, <2>1, AppendProperties DEF LinkTo
  <2>3. 1..n \subseteq 1..(n + 1) /\ n + 1 \in 1..(n + 1)
    OBVIOUS
  <2>4. QED
    BY <2>1, <2>2, <2>3 DEF Contains
<1>3. CASE ~(id \in 1..Len(papers) /\ ~Contains(table, pair))
  BY <1>1, <1>3 DEF LinkTo
<1>4. QED
  BY <1>2, <1>3

\* The ids of a call and those of it that are left to link.
LEMMA TodoFacts ==
  ASSUME NEW y \in Call, Linking(y), Sound(y), y.todo # <<>>,
         NEW n, n = Len(y.ids) - Len(y.todo), NEW id, id = Head(y.todo)
  PROVE  /\ n \in Nat /\ n + 1 \in 1..Len(y.ids) /\ id = y.ids[n + 1] /\ id \in Nat
         /\ Tail(y.todo) \in Seq(Nat) /\ Len(y.ids) - Len(Tail(y.todo)) = n + 1
         /\ \A j \in 1..Len(Tail(y.todo)) : Tail(y.todo)[j] = y.ids[n + 1 + j]
<1>1. y.todo \in Seq(Nat) /\ Len(y.todo) \in Nat /\ Len(y.ids) \in Nat
  BY CallTypes DEF Call
<1>2. Len(y.todo) # 0
  BY <1>1, EmptySeq
<1>3. PICK a \in Nat, b \in Nat : a = Len(y.ids) /\ b = Len(y.todo)
  BY <1>1
<1>4. n = a - b /\ n >= 0 /\ \A j \in 1..b : y.todo[j] = y.ids[n + j]
  BY <1>3 DEF Linking
<1>5. b # 0 /\ n \in Nat /\ 1 \in 1..b /\ n + 1 \in 1..a /\ a - (b - 1) = n + 1
      /\ \A j \in 1..(b - 1) : j + 1 \in 1..b /\ n + (j + 1) = n + 1 + j
  <2>1. a - b >= 0 /\ b # 0
    BY <1>2, <1>3, <1>4
  <2>2. a - b \in Nat
    BY <2>1
  <2>3. PICK m \in Nat : m = n
    BY <1>4, <2>2
  <2>4. a = m + b
    BY <1>4, <2>3
  <2>5. 1 \in 1..b /\ m + 1 \in 1..a /\ a - (b - 1) = m + 1
    BY <2>1, <2>4
  <2>6. \A j \in 1..(b - 1) : j + 1 \in 1..b /\ m + (j + 1) = m + 1 + j
    OBVIOUS
  <2>7. QED
    BY <2>1, <2>3, <2>5, <2>6, Zenon
<1>6. /\ id \in Nat /\ Tail(y.todo) \in Seq(Nat) /\ Len(Tail(y.todo)) = b - 1
      /\ \A i \in 1..(b - 1) : Tail(y.todo)[i] = y.todo[i + 1]
  BY <1>1, <1>3, HeadTailProperties
<1>7. id = y.todo[1]
  BY <1>1
<1>8. \A j \in 1..(b - 1) : Tail(y.todo)[j] = y.ids[n + 1 + j]
  BY <1>4, <1>5, <1>6, Zenon
<1>9. QED
  BY <1>3, <1>4, <1>5, <1>6, <1>7, <1>8

\* The search is recorded with all ids to link; or nothing is to be linked.
LEMMA RecordKeeps ==
  ASSUME ConstantsAssumption, IInv, NEW c \in Callers, NEW d \in Conns, Record(c, d)
  PROVE  IInv'
<1>1. PICK y \in Call : y = calls[c]
  BY Types
<1>2. /\ y.pc = "store" /\ y.found = <<>> /\ Sound(y)
      /\ UNCHANGED <<papers, searchPapers, paperTopics, pdfs, made>>
  BY <1>1, Types DEF Record
<1>3. CASE /\ y.topic \in 1..NTopics /\ searches' = Append(searches, y.topic)
           /\ lastId' = [lastId EXCEPT ![d] = Len(searches')]
           /\ Put(c, [y EXCEPT !.pc = "link", !.todo = y.ids, !.search = Len(searches')])
  <2>1. PICK n \in Nat : n = Len(searches)
    BY Types
  <2>2. searches' \in Seq(1..NTopics) /\ Len(searches') = n + 1
    BY <1>3, <2>1, AppendProperties DEF IInv, TypeOK
  <2>3. 1..n \subseteq 1..(n + 1) /\ n + 1 \in Nat /\ n + 1 \in 1..(n + 1) /\ n <= n + 1
    OBVIOUS
  <2>4. Grown
    BY <1>2, <2>1, <2>2, <2>3, Types DEF Grown, pdfs
  <2>5. TablesOK'
    <3>1. searchPapers \in Seq((1..n) \X (1..Len(papers)))
      BY <2>1 DEF IInv, TypeOK
    <3>2. (1..n) \X (1..Len(papers)) \subseteq (1..(n + 1)) \X (1..Len(papers))
      BY <2>3
    <3>3. searchPapers \in Seq((1..(n + 1)) \X (1..Len(papers)))
      BY <3>1, <3>2, SeqMonotonic
    <3>4. lastId' \in [Conns -> Nat]
      BY <1>3, <2>2, <2>3 DEF IInv, TypeOK
    <3>5. QED
      BY <1>2, <2>2, <3>3, <3>4 DEF IInv, TypeOK, TablesOK, pdfs
  <2>6. PICK x : x = [y EXCEPT !.pc = "link", !.todo = y.ids, !.search = n + 1]
    OBVIOUS
  <2>7. /\ x \in Call /\ x.pc = "link" /\ x.ids = y.ids /\ x.stored = y.stored
        /\ x.todo = y.ids /\ x.search = n + 1 /\ x.topic = y.topic
    BY <2>3, <2>6 DEF Call
  <2>8. Put(c, x)
    BY <1>3, <2>2, <2>6
  <2>9. Sound(y)'
    BY <1>2, <2>4, <2>5, SoundStays, LenProperties DEF IInv, TypeOK, TablesOK
  <2>10. Len(x.ids) \in Nat
    BY <2>7, CallTypes
  <2>11. Linking(x)'
    <3>1. Len(x.ids) - Len(x.todo) = 0 /\ \A j \in 1..Len(x.todo) : 0 + j = j
      BY <2>7, <2>10
    <3>2. \A i \in 1..0 : FALSE
      OBVIOUS
    <3>3. 0 >= 0 /\ x.search \in 1..Len(searches') /\ x.topic \in 1..NTopics
      BY <1>3, <2>2, <2>3, <2>7
    <3>4. QED
      BY <2>7, <3>1, <3>2, <3>3 DEF Linking
  <2>12. Sound(x)'
    BY <2>7, <2>9, <2>11 DEF Sound, Known
  <2>13. QED
    BY <2>4, <2>5, <2>7, <2>8, <2>12, PutKeeps
<1>4. CASE Put(c, [y EXCEPT !.pc = "done"]) /\ UNCHANGED <<searches, lastId>>
  <2>1. PICK x : x = [y EXCEPT !.pc = "done"]
    OBVIOUS
  <2>2. x \in Call /\ x.pc = "done" /\ x.ids = y.ids /\ x.stored = y.stored /\ Put(c, x)
    BY <1>4, <2>1 DEF Call
  <2>3. Sound(x)
    BY <1>2, <2>2 DEF Sound, Known
  <2>4. UNCHANGED <<tables, pdfs>> /\ made' \in 0..MaxCalls
    BY <1>2, <1>4 DEF tables, IInv, TypeOK
  <2>5. QED
    BY <2>2, <2>3, <2>4, QuietKeeps
<1>5. QED
  BY <1>1, <1>3, <1>4 DEF Record
\* The rowid of a link, if it is new.
LEMMA LinkedFacts ==
  ASSUME IInv, NEW d \in Conns, NEW table, NEW new, Len(new) \in Nat, Linked(table, new, d)
  PROVE  lastId' \in [Conns -> Nat]
BY DEF Linked, IInv, TypeOK

\* The id is linked to the search, if a paper has it, and its topic is next.
LEMMA LinkSearchKeeps ==
  ASSUME ConstantsAssumption, IInv, NEW c \in Callers, NEW d \in Conns, LinkSearch(c, d)
  PROVE  IInv'
<1>1. PICK y \in Call : y = calls[c]
  BY Types
<1>2. PICK id : id = Head(y.todo)
  OBVIOUS
<1>3. /\ y.pc = "link" /\ y.todo # <<>> /\ Sound(y) /\ Linking(y)
      /\ searchPapers' = LinkTo(searchPapers, <<y.search, id>>, id)
      /\ Linked(searchPapers, searchPapers', d) /\ Put(c, [y EXCEPT !.pc = "topic"])
      /\ UNCHANGED <<papers, searches, paperTopics, files, withPdf, made>>
  BY <1>1, <1>2, Types DEF LinkSearch, pdfs, Sound
<1>4. y.search \in 1..Len(searches)
  BY <1>3 DEF Linking
<1>5. /\ searchPapers' \in Seq((1..Len(searches)) \X (1..Len(papers)))
      /\ Len(searchPapers') \in Nat
      /\ \A p : Contains(searchPapers, p) => Contains(searchPapers', p)
      /\ id \in 1..Len(papers) => Contains(searchPapers', <<y.search, id>>)
  <2>1. id \in 1..Len(papers) =>
          <<y.search, id>> \in (1..Len(searches)) \X (1..Len(papers))
    BY <1>4
  <2>2. searchPapers \in Seq((1..Len(searches)) \X (1..Len(papers)))
    BY DEF IInv, TypeOK
  <2>3. PICK S : S = (1..Len(searches)) \X (1..Len(papers))
    OBVIOUS
  <2>4. PICK pair : pair = <<y.search, id>>
    OBVIOUS
  <2>5. PICK new : new = LinkTo(searchPapers, pair, id)
    OBVIOUS
  <2>6. /\ new \in Seq(S) /\ Len(new) \in Nat
        /\ \A p : Contains(searchPapers, p) => Contains(new, p)
        /\ id \in 1..Len(papers) => Contains(new, pair)
    BY <2>1, <2>2, <2>3, <2>4, <2>5, LinkFacts
  <2>7. QED
    BY <1>3, <2>3, <2>4, <2>5, <2>6
<1>6. Grown
  BY <1>3, <1>5, Types DEF Grown
<1>7. TablesOK'
  <2>1. lastId' \in [Conns -> Nat]
    BY <1>3, <1>5, LinkedFacts
  <2>2. QED
    BY <1>3, <1>5, <2>1 DEF TablesOK, IInv, TypeOK
<1>8. PICK x : x = [y EXCEPT !.pc = "topic"]
  OBVIOUS
<1>9. /\ x \in Call /\ x.pc = "topic" /\ x.ids = y.ids /\ x.stored = y.stored /\ Put(c, x)
      /\ x.todo = y.todo /\ x.search = y.search /\ x.topic = y.topic /\ x.failed = y.failed
  BY <1>3, <1>8 DEF Call
<1>10. Sound(y)' /\ Linking(y)'
  <2>1. Sound(y)'
    BY <1>3, <1>6, Types, SoundStays
  <2>2. QED
    BY <1>3, <2>1 DEF Sound
<1>11. PICK n : n = Len(y.ids) - Len(y.todo)
  OBVIOUS
<1>12. n + 1 \in 1..Len(y.ids) /\ id = y.ids[n + 1]
  BY <1>2, <1>3, <1>11, TodoFacts
<1>13. y.stored[n + 1].new => Contains(searchPapers', <<y.search, y.ids[n + 1]>>)
  BY <1>3, <1>5, <1>12 DEF Sound, Known
<1>14. Linking(x)'
  BY <1>3, <1>9, <1>10, <1>11, <1>13 DEF Linking
<1>15. Sound(x)'
  BY <1>9, <1>10, <1>14 DEF Sound, Known
<1>16. QED
  BY <1>6, <1>7, <1>9, <1>15, PutKeeps

\* Both links of the id are there, and the next one is the first of those left.
LEMMA LinkTopicKeeps ==
  ASSUME ConstantsAssumption, IInv, NEW c \in Callers, NEW d \in Conns, LinkTopic(c, d)
  PROVE  IInv'
<1>1. PICK y \in Call : y = calls[c]
  BY Types
<1>2. PICK id : id = Head(y.todo)
  OBVIOUS
<1>3. /\ y.pc = "topic" /\ y.todo # <<>> /\ Sound(y) /\ Linking(y)
      /\ paperTopics' = LinkTo(paperTopics, <<id, y.topic>>, id)
      /\ Linked(paperTopics, paperTopics', d)
      /\ Put(c, [y EXCEPT !.pc = "link", !.todo = Tail(y.todo)])
      /\ UNCHANGED <<papers, searches, searchPapers, files, withPdf, made>>
  BY <1>1, <1>2, Types DEF LinkTopic, pdfs, Sound, Linking
<1>4. y.topic \in 1..NTopics
  BY <1>3 DEF Linking
<1>5. /\ paperTopics' \in Seq((1..Len(papers)) \X (1..NTopics))
      /\ Len(paperTopics') \in Nat
      /\ \A p : Contains(paperTopics, p) => Contains(paperTopics', p)
      /\ id \in 1..Len(papers) => Contains(paperTopics', <<id, y.topic>>)
  <2>1. id \in 1..Len(papers) => <<id, y.topic>> \in (1..Len(papers)) \X (1..NTopics)
    BY <1>4
  <2>2. paperTopics \in Seq((1..Len(papers)) \X (1..NTopics))
    BY DEF IInv, TypeOK
  <2>3. PICK S : S = (1..Len(papers)) \X (1..NTopics)
    OBVIOUS
  <2>4. PICK pair : pair = <<id, y.topic>>
    OBVIOUS
  <2>5. PICK new : new = LinkTo(paperTopics, pair, id)
    OBVIOUS
  <2>6. /\ new \in Seq(S) /\ Len(new) \in Nat
        /\ \A p : Contains(paperTopics, p) => Contains(new, p)
        /\ id \in 1..Len(papers) => Contains(new, pair)
    BY <2>1, <2>2, <2>3, <2>4, <2>5, LinkFacts
  <2>7. QED
    BY <1>3, <2>3, <2>4, <2>5, <2>6
<1>6. Grown
  BY <1>3, <1>5, Types DEF Grown
<1>7. TablesOK'
  <2>1. lastId' \in [Conns -> Nat]
    BY <1>3, <1>5, LinkedFacts
  <2>2. QED
    BY <1>3, <1>5, <2>1 DEF TablesOK, IInv, TypeOK
<1>8. PICK n : n = Len(y.ids) - Len(y.todo)
  OBVIOUS
<1>9. PICK todo : todo = Tail(y.todo)
  OBVIOUS
<1>10. /\ n \in Nat /\ n + 1 \in 1..Len(y.ids) /\ id = y.ids[n + 1] /\ todo \in Seq(Nat)
       /\ Len(y.ids) - Len(todo) = n + 1
       /\ \A j \in 1..Len(todo) : todo[j] = y.ids[n + 1 + j]
  BY <1>2, <1>3, <1>8, <1>9, TodoFacts
<1>11. PICK x : x = [y EXCEPT !.pc = "link", !.todo = todo]
  OBVIOUS
<1>12. /\ x \in Call /\ x.pc = "link" /\ x.ids = y.ids /\ x.stored = y.stored /\ Put(c, x)
       /\ x.todo = todo /\ x.search = y.search /\ x.topic = y.topic /\ x.failed = y.failed
  BY <1>3, <1>9, <1>10, <1>11 DEF Call
<1>13. Sound(y)' /\ Linking(y)'
  <2>1. Sound(y)'
    BY <1>3, <1>6, Types, SoundStays
  <2>2. QED
    BY <1>3, <2>1 DEF Sound
<1>14. ASSUME ~y.failed, NEW i \in 1..(n + 1), y.stored[i].new
       PROVE  /\ Contains(searchPapers', <<y.search, y.ids[i]>>)
              /\ Contains(paperTopics', <<y.ids[i], y.topic>>)
  <2>1. i \in 1..n \/ i = n + 1
    BY <1>10
  <2>2. CASE i \in 1..n
    BY <1>8, <1>13, <1>14, <2>2 DEF Linking
  <2>3. CASE i = n + 1
    <3>1. Contains(searchPapers', <<y.search, y.ids[n + 1]>>)
      BY <1>3, <1>8, <1>13, <1>14, <2>3 DEF Linking
    <3>2. y.ids[n + 1] \in 1..Len(papers)
      BY <1>3, <1>10, <1>14, <2>3 DEF Sound, Known
    <3>3. QED
      BY <1>5, <1>10, <2>3, <3>1, <3>2
  <2>4. QED
    BY <2>1, <2>2, <2>3
<1>15. Linking(x)'
  <2>1. n + 1 >= 0 /\ Len(x.ids) - Len(x.todo) = n + 1
    BY <1>10, <1>12
  <2>2. x.search \in 1..Len(searches') /\ x.topic \in 1..NTopics
    BY <1>12, <1>13 DEF Linking
  <2>3. QED
    BY <1>10, <1>12, <1>14, <2>1, <2>2 DEF Linking
<1>16. Sound(x)'
  BY <1>12, <1>13, <1>15 DEF Sound, Known
<1>17. QED
  BY <1>6, <1>7, <1>12, <1>16, PutKeeps

\* After a failure nothing is said of the links.
LEMMA LinkFailsKeeps ==
  ASSUME ConstantsAssumption, IInv, NEW c \in Callers, LinkFails(c)
  PROVE  IInv'
<1>1. PICK y \in Call : y = calls[c]
  BY Types
<1>2. /\ y.pc \in {"link", "topic"} /\ y.todo # <<>> /\ Sound(y) /\ Linking(y)
      /\ UNCHANGED <<tables, pdfs>> /\ made' \in 0..MaxCalls
  BY <1>1, Types DEF LinkFails, Sound, Linking, IInv, TypeOK
<1>3. PICK n : n = Len(y.ids) - Len(y.todo)
  OBVIOUS
<1>4. PICK todo : todo = Tail(y.todo)
  OBVIOUS
<1>5. /\ n \in Nat /\ todo \in Seq(Nat) /\ Len(y.ids) - Len(todo) = n + 1
      /\ \A j \in 1..Len(todo) : todo[j] = y.ids[n + 1 + j]
  BY <1>2, <1>3, <1>4, TodoFacts
<1>6. CASE Put(c, [y EXCEPT !.pc = "topic", !.failed = TRUE])
  <2>1. PICK x : x = [y EXCEPT !.pc = "topic", !.failed = TRUE]
    OBVIOUS
  <2>2. /\ x \in Call /\ x.pc = "topic" /\ x.ids = y.ids /\ x.stored = y.stored /\ Put(c, x)
        /\ x.todo = y.todo /\ x.search = y.search /\ x.topic = y.topic /\ x.failed = TRUE
    BY <1>6, <2>1 DEF Call
  <2>3. Linking(x)
    BY <1>2, <2>2 DEF Linking
  <2>4. Sound(x)
    BY <1>2, <2>2, <2>3 DEF Sound, Known
  <2>5. QED
    BY <1>2, <2>2, <2>4, QuietKeeps
<1>7. CASE Put(c, [y EXCEPT !.pc = "link", !.todo = Tail(y.todo), !.failed = TRUE])
  <2>1. PICK x : x = [y EXCEPT !.pc = "link", !.todo = todo, !.failed = TRUE]
    OBVIOUS
  <2>2. /\ x \in Call /\ x.pc = "link" /\ x.ids = y.ids /\ x.stored = y.stored /\ Put(c, x)
        /\ x.todo = todo /\ x.search = y.search /\ x.topic = y.topic /\ x.failed = TRUE
    BY <1>4, <1>5, <1>7, <2>1 DEF Call
  <2>3. Linking(x)
    <3>1. n + 1 >= 0 /\ Len(x.ids) - Len(x.todo) = n + 1
      BY <1>5, <2>2
    <3>2. QED
      BY <1>2, <1>5, <2>2, <3>1 DEF Linking
  <2>4. Sound(x)
    BY <1>2, <2>2, <2>3 DEF Sound, Known
  <2>5. QED
    BY <1>2, <2>2, <2>4, QuietKeeps
<1>8. QED
  BY <1>1, <1>6, <1>7 DEF LinkFails
\* A call is over.
LEMMA IdleKeeps ==
  ASSUME ConstantsAssumption, IInv, NEW c \in Callers, Put(c, Idle), TablesOK', Grown
  PROVE  IInv'
<1>1. Idle \in Call
  BY EmptySeq DEF Idle, Call, ConstantsAssumption
<1>2. Sound(Idle)'
  BY EmptySeq DEF Sound, Known, Idle
<1>3. QED
  BY <1>1, <1>2, PutKeeps

-----------------------------------------------------------------------------
(* The steps of a download.                                                *)

\* A download is of a paper that has a row.
LEMMA DownloadKeeps ==
  ASSUME ConstantsAssumption, IInv, NEW c \in Callers, NEW id \in 1..Len(papers),
         Download(c, id)
  PROVE  IInv'
<1>1. PICK x : x = [Idle EXCEPT !.pc = "fetch", !.search = id]
  OBVIOUS
<1>2. x = [pc |-> "fetch", topic |-> 0, queries |-> 0, attempt |-> 0, found |-> <<>>,
           ids |-> <<>>, todo |-> <<>>, search |-> id, stored |-> <<>>, failed |-> FALSE]
  BY <1>1 DEF Idle
<1>3. id \in Nat /\ (\A S : <<>> \in Seq(S)) /\ Len(<<>>) = 0
      /\ 0 \in 0..(MaxAttempts - 1) /\ 0 \in 0..MaxQueries
  BY EmptySeq, Types DEF ConstantsAssumption
<1>4. x \in Call
  BY <1>2, <1>3 DEF Call
<1>5. Sound(x)
  BY <1>2, <1>3 DEF Sound, Known
<1>6. Put(c, x) /\ UNCHANGED <<tables, pdfs>> /\ made' \in 0..MaxCalls
  BY <1>1 DEF Download, IInv, TypeOK, ConstantsAssumption
<1>7. QED
  BY <1>4, <1>5, <1>6, QuietKeeps

\* The file is on disk before the row can say so.
LEMMA PdfKeeps ==
  ASSUME ConstantsAssumption, IInv, NEW c \in Callers, PdfStep(c)
  PROVE  IInv'
<1>1. PICK y \in Call : y = calls[c]
  BY Types
<1>2. y.pc \in {"fetch", "update"} /\ Sound(y)
  BY <1>1, Types DEF PdfStep, Fetched, FetchFails, UpdatePaper
<1>3. y.search \in 1..Len(papers)
  BY <1>2 DEF Sound
<1>4. CASE Fetched(c)
  <2>1. /\ files' = files \cup {y.search} /\ Put(c, [y EXCEPT !.pc = "update"])
        /\ UNCHANGED <<papers, searches, searchPapers, paperTopics, lastId, withPdf, made>>
    BY <1>1, <1>4 DEF Fetched, tables
  <2>2. TablesOK' /\ Grown
    BY <1>3, <2>1, Types DEF TablesOK, Grown
  <2>3. PICK x : x = [y EXCEPT !.pc = "update"]
    OBVIOUS
  <2>4. /\ x \in Call /\ x.pc = "update" /\ x.ids = y.ids /\ x.stored = y.stored
        /\ x.search = y.search /\ Put(c, x)
    BY <2>1, <2>3 DEF Call
  <2>5. Sound(y)'
    BY <1>2, <2>1, <2>2, Types, SoundStays
  <2>6. Sound(x)'
    BY <1>2, <2>1, <2>4, <2>5 DEF Sound, Known
  <2>7. QED
    BY <2>2, <2>4, <2>6, PutKeeps
<1>5. CASE FetchFails(c)
  BY <1>5, SameTables, IdleKeeps DEF FetchFails
<1>6. CASE UpdatePaper(c)
  <2>1. /\ withPdf' \in {withPdf, withPdf \cup {y.search}} /\ Put(c, Idle) /\ y.pc = "update"
        /\ UNCHANGED <<papers, searches, searchPapers, paperTopics, lastId, files, made>>
    BY <1>1, <1>6 DEF UpdatePaper, tables
  <2>2. y.search \in files
    BY <1>2, <2>1 DEF Sound
  <2>3. TablesOK' /\ Grown
    BY <2>1, <2>2, Types DEF TablesOK, Grown
  <2>4. QED
    BY <2>1, <2>3, IdleKeeps
<1>7. QED
  BY <1>4, <1>5, <1>6 DEF PdfStep

-----------------------------------------------------------------------------
\* Every step keeps the invariant.
LEMMA NextKeeps ==
  ASSUME ConstantsAssumption, IInv, [Next]_vars
  PROVE  IInv'
<1>1. ASSUME NEW c \in Callers, StoreStep(c) PROVE IInv'
  BY <1>1, LookupKeeps, StorePaperKeeps DEF StoreStep
<1>2. ASSUME NEW c \in Callers, Respond(c) PROVE IInv'
  BY <1>2, SameTables, IdleKeeps DEF Respond
<1>3. ASSUME NEW c \in Callers, LinkStep(c) PROVE IInv'
  BY <1>2, <1>3, LinkFailsKeeps, RecordKeeps, LinkSearchKeeps, LinkTopicKeeps DEF LinkStep
<1>4. CASE UNCHANGED vars
  <2>1. UNCHANGED <<papers, searches, searchPapers, paperTopics, lastId, files, withPdf,
                    calls, made>>
    BY <1>4 DEF vars, tables, pdfs
  <2>2. QED
    BY <2>1 DEF IInv, TypeOK, Sound, Known, Linking
<1>5. ASSUME NEW c \in Callers, CallStep(c) PROVE IInv'
  BY <1>1, <1>3, <1>5, QueryKeeps, PdfKeeps DEF CallStep
<1>6. QED
  BY <1>4, <1>5, SearchKeeps, DownloadKeeps DEF Next

\* What a call has added is known by its own id, and linked when the call ends.
LEMMA Implied ==
  ASSUME ConstantsAssumption, IInv
  PROVE  NewPapersLinked
<1>1. SUFFICES ASSUME NEW c \in Callers, NEW y \in Call, y = calls[c],
                      NEW i \in 1..Len(y.ids), y.stored[i].new
               PROVE  /\ papers[y.ids[i]] = y.stored[i].paper
                      /\ y.pc = "link" /\ y.todo = <<>> /\ ~y.failed =>
                           /\ Contains(searchPapers, <<y.search, y.ids[i]>>)
                           /\ Contains(paperTopics, <<y.ids[i], y.topic>>)
  <2>1. \A c \in Callers : calls[c] \in Call
    BY Types
  <2>2. QED
    BY <1>1, <2>1 DEF NewPapersLinked
<1>2. Sound(y)
  BY <1>1, Types
<1>3. papers[y.ids[i]] = y.stored[i].paper
  BY <1>1, <1>2 DEF Sound, Known
<1>4. ASSUME y.pc = "link", y.todo = <<>>, ~y.failed
      PROVE  /\ Contains(searchPapers, <<y.search, y.ids[i]>>)
             /\ Contains(paperTopics, <<y.ids[i], y.topic>>)
  <2>1. PICK n \in Nat : n = Len(y.ids)
    BY CallTypes
  <2>2. n - Len(y.todo) = n
    BY <1>4, <2>1, EmptySeq
  <2>3. Linking(y)
    BY <1>2, <1>4 DEF Sound
  <2>4. QED
    BY <1>1, <1>4, <2>1, <2>2, <2>3 DEF Linking
<1>5. QED
  BY <1>3, <1>4

\* The invariant holds throughout.
LEMMA Invariant == ASSUME ConstantsAssumption PROVE Spec => []IInv
<1>1. Init => IInv
  BY InitIInv
<1>2. IInv /\ [Next]_vars => IInv'
  BY NextKeeps
<1>3. QED
  BY <1>1, <1>2, PTL DEF Spec

\* Rows and links are of their tables, links of rows that are there; and a row says
\* that its paper has a PDF only when the file is on disk.
THEOREM TypeCorrect == ASSUME ConstantsAssumption PROVE Spec => []TypeOK
<1>1. IInv => TypeOK
  BY DEF IInv
<1>2. QED
  BY <1>1, Invariant, PTL

\* storePaper, handleSearchPapers: whatever other calls insert on the same connections,
\* and whichever statements fail, the papers that a search added are linked to it.
THEOREM PapersAreLinked == ASSUME ConstantsAssumption PROVE Spec => []NewPapersLinked
<1>1. IInv => NewPapersLinked
  BY Implied
<1>2. QED
  BY <1>1, Invariant, PTL
=============================================================================
