------------------------------- MODULE Papers -------------------------------
(***************************************************************************)
(* rogue-phd: search_papers and download_pdf, calls of which the MCP       *)
(* server runs concurrently. They share a pool of database connections,    *)
(* and LastInsertId is a matter of the connection: the rowid of the last   *)
(* row it inserted, into whichever table, which an INSERT OR IGNORE that   *)
(* ignores its row leaves as it was. A statement is a step, on any         *)
(* connection of the pool; so is a request to a literature database.       *)
(***************************************************************************)
EXTENDS Naturals, Sequences, FiniteSets, SequencesExt

CONSTANTS
  Callers, Conns,   \* calls at a time; connections of the pool
  NTopics,          \* topics are 1..NTopics
  TopicArgs,        \* topic_id arguments; 0 for none
  Answers,          \* what a query may bring: sequences of [ext, fp] records,
                    \* external id and fingerprint of the title
  MaxAttempts, MaxQueries, MaxCalls \* the searchers' limit; bounds of the model

Found == UNION {Range(a) : a \in Answers}

ConstantsAssumption ==
  /\ NTopics \in Nat /\ TopicArgs \subseteq Nat /\ Answers \subseteq Seq(Found)
  /\ MaxAttempts \in Nat \ {0} /\ MaxQueries \in Nat /\ MaxCalls \in Nat

VARIABLES
  papers,        \* the table papers; a row's id is its index
  searches,      \* searches: the topic of each
  searchPapers, paperTopics,  \* the link tables, in rowid order
  lastId,        \* lastId[d]: last_insert_rowid of connection d; 0 if none
  files, withPdf,\* papers whose PDF is on disk; whose row says so
  calls,         \* calls[c]: a call in progress
  made           \* calls made so far

tables == <<papers, searches, searchPapers, paperTopics, lastId>>
pdfs   == <<files, withPdf>>
vars   == <<tables, pdfs, calls, made>>

\* Fields of a call: topic; queries left and attempts at the current one; the
\* papers found and not stored yet; ids collected; those left to link. History:
\* stored, for each id, the paper it stands for and whether this call added it;
\* whether a link failed.
Idle == [pc |-> "idle", topic |-> 0, queries |-> 0, attempt |-> 0, found |-> <<>>,
         ids |-> <<>>, todo |-> <<>>, search |-> 0, stored |-> <<>>, failed |-> FALSE]

Call ==
  [pc : {"idle", "query", "store", "lookup", "link", "topic", "done", "fetch", "update"},
   topic : Nat, queries : 0..MaxQueries, attempt : 0..(MaxAttempts - 1), found : Seq(Found),
   ids : Seq(Nat), todo : Seq(Nat), search : Nat,
   stored : Seq([paper : Found, new : BOOLEAN]), failed : BOOLEAN]

TypeOK ==
  /\ papers \in Seq(Found) /\ searches \in Seq(1..NTopics)
  /\ searchPapers \in Seq((1..Len(searches)) \X (1..Len(papers)))
  /\ paperTopics \in Seq((1..Len(papers)) \X (1..NTopics))
  /\ lastId \in [Conns -> Nat]
  /\ withPdf \subseteq files /\ files \subseteq 1..Len(papers)
  /\ calls \in [Callers -> Call] /\ \A c \in Callers : Len(calls[c].ids) = Len(calls[c].stored)
  /\ made \in 0..MaxCalls

Init ==
  /\ papers = <<>> /\ searches = <<>> /\ searchPapers = <<>> /\ paperTopics = <<>>
  /\ lastId = [d \in Conns |-> 0] /\ files = {} /\ withPdf = {}
  /\ calls = [c \in Callers |-> Idle] /\ made = 0

Put(c, call) == calls' = [calls EXCEPT ![c] = call]

-----------------------------------------------------------------------------
(* handleSearchPapers: each keyword in each database.                      *)

Search(c) ==
  /\ calls[c].pc = "idle" /\ made < MaxCalls /\ made' = made + 1
  /\ \E t \in TopicArgs, q \in 1..MaxQueries :
       Put(c, [Idle EXCEPT !.pc = "query", !.topic = t, !.queries = q])
  /\ UNCHANGED <<tables, pdfs>>

NextQuery(c, found) ==
  Put(c, [calls[c] EXCEPT !.found = found, !.queries = @ - 1, !.attempt = 0,
                          !.pc = IF calls[c].queries = 1 THEN "store" ELSE "query"])

\* Papers of a title that this call has found before are dropped.
Unseen(found, answer) ==
  LET after[n \in 0..Len(answer)] ==
        IF n = 0 THEN found
        ELSE IF \E i \in 1..Len(after[n - 1]) : after[n - 1][i].fp = answer[n].fp
        THEN after[n - 1]
        ELSE Append(after[n - 1], answer[n])
  IN after[Len(answer)]

QueryAnswered(c) ==
  /\ calls[c].pc = "query"
  /\ \E a \in Answers : NextQuery(c, Unseen(calls[c].found, a))
  /\ UNCHANGED <<tables, pdfs, made>>

\* 429 (or 500, from arXiv) is tried again after a while, a limited number of times.
QueryLimited(c) ==
  /\ calls[c].pc = "query"
  /\ IF calls[c].attempt < MaxAttempts - 1 THEN Put(c, [calls[c] EXCEPT !.attempt = @ + 1])
     ELSE NextQuery(c, calls[c].found)
  /\ UNCHANGED <<tables, pdfs, made>>

\* Other errors, and those of PubMed's two requests, only skip the query.
QueryFails(c) ==
  /\ calls[c].pc = "query"
  /\ NextQuery(c, calls[c].found)
  /\ UNCHANGED <<tables, pdfs, made>>

-----------------------------------------------------------------------------
(* storePaper.                                                             *)

\* The next paper is stored, or left out when id is 0.
Stored(c, id, new) ==
  LET call == calls[c] IN
  Put(c, [call EXCEPT !.pc = "store", !.found = Tail(@),
            !.ids = IF id = 0 THEN @ ELSE Append(@, id),
            !.stored = IF id = 0 THEN @
                       ELSE Append(@, [paper |-> Head(call.found), new |-> new])])

Duplicate(p) == \E i \in 1..Len(papers) : papers[i].ext = p.ext

\* INSERT OR IGNORE, which heeds the unique external id only, and LastInsertId.
StorePaper(c, d) ==
  LET p == Head(calls[c].found) IN
  /\ calls[c].pc = "store" /\ calls[c].found # <<>>
  /\ IF Duplicate(p)
     THEN /\ IF lastId[d] = 0 THEN Put(c, [calls[c] EXCEPT !.pc = "lookup"])
             ELSE Stored(c, lastId[d], FALSE)
          /\ UNCHANGED <<papers, lastId>>
     ELSE /\ papers' = Append(papers, p) /\ lastId' = [lastId EXCEPT ![d] = Len(papers')]
          /\ Stored(c, Len(papers'), TRUE)
  /\ UNCHANGED <<searches, searchPapers, paperTopics, pdfs, made>>

\* A connection that has inserted nothing: the row of that fingerprint, if any.
Lookup(c) ==
  LET same == {i \in 1..Len(papers) : papers[i].fp = Head(calls[c].found).fp} IN
  /\ calls[c].pc = "lookup"
  /\ IF same = {} THEN Stored(c, 0, FALSE)
     ELSE \E id \in same : Stored(c, id, FALSE)
  /\ UNCHANGED <<tables, pdfs, made>>

StoreFails(c) ==
  /\ calls[c].pc \in {"store", "lookup"} /\ calls[c].found # <<>>
  /\ Stored(c, 0, FALSE)
  /\ UNCHANGED <<tables, pdfs, made>>

-----------------------------------------------------------------------------
(* The record of the search, and the links.                                *)

\* Without a topic, without papers, or if the insert fails, as it must for a topic
\* that does not exist, nothing is linked.
Record(c, d) ==
  LET call == calls[c] IN
  /\ call.pc = "store" /\ call.found = <<>>
  /\ \/ /\ call.topic \in 1..NTopics /\ call.ids # <<>>
        /\ searches' = Append(searches, call.topic)
        /\ lastId' = [lastId EXCEPT ![d] = Len(searches')]
        /\ Put(c, [call EXCEPT !.pc = "link", !.todo = call.ids, !.search = Len(searches')])
     \/ Put(c, [call EXCEPT !.pc = "done"]) /\ UNCHANGED <<searches, lastId>>
  /\ UNCHANGED <<papers, searchPapers, paperTopics, pdfs, made>>

\* INSERT OR IGNORE of a pair: not twice, and not with an id that no row has.
LinkTo(table, pair, id) ==
  IF id \in 1..Len(papers) /\ ~Contains(table, pair)
  THEN Append(table, pair) ELSE table

Linked(table, new, d) ==
  lastId' = IF new = table THEN lastId ELSE [lastId EXCEPT ![d] = Len(new)]

LinkSearch(c, d) ==
  LET call == calls[c]
      new  == LinkTo(searchPapers, <<call.search, Head(call.todo)>>, Head(call.todo))
  IN /\ call.pc = "link" /\ call.todo # <<>>
     /\ searchPapers' = new /\ Linked(searchPapers, new, d)
     /\ Put(c, [call EXCEPT !.pc = "topic"])
     /\ UNCHANGED <<papers, searches, paperTopics, pdfs, made>>

LinkTopicOnce(c, d) ==
  LET call == calls[c]
      id   == Head(call.todo)
      new  == LinkTo(paperTopics, <<id, call.topic>>, id)
  IN /\ call.pc = "topic"
     /\ paperTopics' = new /\ Linked(paperTopics, new, d)
     /\ Put(c, [call EXCEPT !.pc = "link", !.todo = IF new = paperTopics THEN <<>> ELSE Tail(@)])
     /\ UNCHANGED <<papers, searches, searchPapers, pdfs, made>>

LinkTopic(c, d) ==
  LET call == calls[c]
      id   == Head(call.todo)
      new  == LinkTo(paperTopics, <<id, call.topic>>, id)
  IN /\ call.pc = "topic"
     /\ paperTopics' = new /\ Linked(paperTopics, new, d)
     /\ Put(c, [call EXCEPT !.pc = "link", !.todo = Tail(@)])
     /\ UNCHANGED <<papers, searches, searchPapers, pdfs, made>>

\* Either insert may fail, which is not noticed.
LinkFails(c) ==
  LET call == calls[c] IN
  /\ \/ call.pc = "link" /\ call.todo # <<>> /\ Put(c, [call EXCEPT !.pc = "topic", !.failed = TRUE])
     \/ call.pc = "topic" /\ Put(c, [call EXCEPT !.pc = "link", !.todo = Tail(@), !.failed = TRUE])
  /\ UNCHANGED <<tables, pdfs, made>>

\* The response, and what there is to say of the call, is gone.
Respond(c) ==
  /\ calls[c].pc = "done" \/ (calls[c].pc = "link" /\ calls[c].todo = <<>>)
  /\ Put(c, Idle)
  /\ UNCHANGED <<tables, pdfs, made>>

-----------------------------------------------------------------------------
(* handleDownloadPDF, of a paper that has a URL: the file, then the row.   *)

Download(c, id) ==
  /\ calls[c].pc = "idle" /\ made < MaxCalls /\ made' = made + 1
  /\ id \in 1..Len(papers)
  /\ Put(c, [Idle EXCEPT !.pc = "fetch", !.search = id])
  /\ UNCHANGED <<tables, pdfs>>

Fetched(c) ==
  /\ calls[c].pc = "fetch"
  /\ files' = files \cup {calls[c].search}
  /\ Put(c, [calls[c] EXCEPT !.pc = "update"])
  /\ UNCHANGED <<tables, withPdf, made>>

FetchFailsOn(c) ==
  /\ calls[c].pc = "fetch"
  /\ Put(c, [calls[c] EXCEPT !.pc = "update"])
  /\ UNCHANGED <<tables, pdfs, made>>

FetchFails(c) ==
  /\ calls[c].pc = "fetch"
  /\ Put(c, Idle)
  /\ UNCHANGED <<tables, pdfs, made>>

\* The UPDATE, whose error is ignored.
UpdatePaper(c) ==
  /\ calls[c].pc = "update"
  /\ withPdf' \in {withPdf, withPdf \cup {calls[c].search}}
  /\ Put(c, Idle)
  /\ UNCHANGED <<tables, files, made>>

-----------------------------------------------------------------------------
QueryStep(c) == QueryAnswered(c) \/ QueryLimited(c) \/ QueryFails(c)
StoreStep(c) == Lookup(c) \/ StoreFails(c) \/ \E d \in Conns : StorePaper(c, d)
LinkStep(c)  ==
  \/ Respond(c) \/ LinkFails(c)
  \/ \E d \in Conns : Record(c, d) \/ LinkSearch(c, d) \/ LinkTopic(c, d)
PdfStep(c)   == Fetched(c) \/ FetchFails(c) \/ UpdatePaper(c)

CallStep(c) == QueryStep(c) \/ StoreStep(c) \/ LinkStep(c) \/ PdfStep(c)

Next ==
  \E c \in Callers :
    Search(c) \/ CallStep(c) \/ \E id \in 1..Len(papers) : Download(c, id)

Spec == Init /\ [][Next]_vars

-----------------------------------------------------------------------------
(* Properties.                                                             *)

\* A paper that a call added is known to it by its own id, whatever calls insert on
\* the same connections meanwhile; and when the call ends, no link having failed, it
\* is linked to the search and to the topic, also if other ids are wrong, repeated or
\* without a row.
NewPapersLinked ==
  \A c \in Callers : LET call == calls[c] IN
    \A i \in 1..Len(call.ids) : call.stored[i].new =>
      /\ papers[call.ids[i]] = call.stored[i].paper
      /\ call.pc = "link" /\ call.todo = <<>> /\ ~call.failed =>
           /\ Contains(searchPapers, <<call.search, call.ids[i]>>)
           /\ Contains(paperTopics, <<call.ids[i], call.topic>>)

\* What search_papers says of itself, "Papers are deduplicated and stored in the
\* database. Optionally link results to a topic": what it links are its results.
ResultsLinked ==
  \A c \in Callers : LET call == calls[c] IN
    call.pc = "link" => \A i \in 1..Len(call.ids) :
      Contains(searchPapers, <<call.search, call.ids[i]>>) =>
        \E j \in 1..Len(call.stored) :
          LET p == papers[call.ids[i]]  q == call.stored[j].paper IN p.ext = q.ext \/ p.fp = q.fp

=============================================================================
