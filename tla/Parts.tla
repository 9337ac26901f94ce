------------------------------- MODULE Parts --------------------------------
(***************************************************************************)
(* Parts of the system that share no state: power grants, rogue-phd's      *)
(* papers, rogue-store's backup, the cache of database handles, and the    *)
(* splitting of a reply. A behaviour is one of the part that its initial   *)
(* state picks; the others stay as they begin.                             *)
(***************************************************************************)
EXTENDS Naturals, Sequences

CONSTANTS
  Callers, None,                                              \* of all parts
  Users, Scopes, Powers, NameOf, Schedules, MaxRows, MaxGrantCalls,  \* Grants
  Conns, NTopics, TopicArgs, Answers, MaxAttempts, MaxQueries, MaxPaperCalls,  \* Papers
  MaxVersion,                                                 \* Backup
  Spaces, MaxHandles,                                         \* Store
  Limit, Bytes, NL, SP, Texts                                 \* Reply

VARIABLES
  part,
  grants, rows, batch, hand, acking, grantCalls, grantsMade, last, calm,
  papers, searches, searchPapers, paperTopics, lastId, files, withPdf, paperCalls, papersMade,
  data, db, base, index, head, saved, remote, backupCalls,
  dbs, opened, closed, storeCalls,
  text, done, chunks, next, posted

Granting == INSTANCE Grants WITH
  MaxCalls <- MaxGrantCalls, calls <- grantCalls, made <- grantsMade
Storing  == INSTANCE Papers WITH
  MaxCalls <- MaxPaperCalls, calls <- paperCalls, made <- papersMade
Saving   == INSTANCE Backup WITH calls <- backupCalls
Opening  == INSTANCE Store WITH calls <- storeCalls
Replying == INSTANCE Reply

\* What the parts assume of their constants.
ASSUME PartsAssumption ==
  /\ Granting!ConstantsAssumption /\ Storing!ConstantsAssumption
  /\ Saving!ConstantsAssumption /\ Opening!ConstantsAssumption
  /\ Replying!ConstantsAssumption

Init ==
  /\ part \in {"grants", "papers", "backup", "store", "reply"}
  /\ Granting!Init /\ Storing!Init /\ Saving!Init /\ Opening!Init /\ Replying!Init

grantVars == <<grants, rows, batch, hand, acking, grantCalls, grantsMade, last, calm>>
paperVars == <<papers, searches, searchPapers, paperTopics, lastId, files, withPdf,
               paperCalls, papersMade>>
backupVars == <<data, db, base, index, head, saved, remote, backupCalls>>
storeVars == <<dbs, opened, closed, storeCalls>>
replyVars == <<text, done, chunks, next, posted>>

Next ==
  /\ UNCHANGED part
  /\ \/ part = "grants" /\ Granting!Next
     \/ part # "grants" /\ UNCHANGED grantVars
  /\ \/ part = "papers" /\ Storing!Next
     \/ part # "papers" /\ UNCHANGED paperVars
  /\ \/ part = "backup" /\ Saving!Next
     \/ part # "backup" /\ UNCHANGED backupVars
  /\ \/ part = "store" /\ Opening!Next
     \/ part # "store" /\ UNCHANGED storeVars
  /\ \/ part = "reply" /\ Replying!Next
     \/ part # "reply" /\ UNCHANGED replyVars

vars == <<part, grantVars, paperVars, backupVars, storeVars, replyVars>>

Spec == Init /\ [][Next]_vars

-----------------------------------------------------------------------------
\* Every part keeps the shape of its state.
TypeOK ==
  Granting!TypeOK /\ Storing!TypeOK /\ Saving!TypeOK /\ Opening!TypeOK /\ Replying!TypeOK

\* SyncPowerSchedules, RemovePowerSchedules: a call on a power that meets nothing in
\* flight decides on its schedule, until the next one does.
LastCallDecides == Granting!LastCallDecides

\* Tick, recovery and Ack: a cancelled task that nobody has in flight stays cancelled.
CancelledForGood == Granting!CancelledForGood

\* storePaper and the links: what a search added is linked to it.
NewPapersLinked == Storing!NewPapersLinked

\* handleBackup: what a call reports is committed, and pushed if it says so, unless the
\* copy was torn by a checkpoint.
ReportsHold == Saving!ReportsHold

\* getOrOpenDB and Close: no handle leaks.
NoneLeaked == Opening!NoneLeaked

\* SplitMessage and sendChunked: no gap in what the chat shows of a reply.
NothingCutOut == Replying!NothingCutOut

=============================================================================
