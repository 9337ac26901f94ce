------------------------------- MODULE Backup -------------------------------
(***************************************************************************)
(* rogue-store's backup tool: checkpoint, git add, diff, commit, push of   *)
(* the data directory, while other processes write to it and other calls   *)
(* of the tool do the same. One SQLite database stands for the directory:  *)
(* its file, and its write-ahead log, from which a checkpoint moves what   *)
(* was written into the file. Its content is a version, the number of the  *)
(* last write. Each git command is a step, git add one per file it reads.  *)
(***************************************************************************)
EXTENDS Naturals

CONSTANTS
  Callers,      \* calls of the tool at a time
  MaxVersion    \* bound of the model: writes to the data

VARIABLES
  data,      \* the last write
  db,        \* the last write that is in the database file
  base,      \* the log has the writes base + 1 .. data
  index, head,  \* the files as git's index and its last commit have them
  saved, remote,  \* history: writes 1 .. saved are in a commit, 1 .. remote in a pushed one
  calls      \* calls[c]: next step of the call, the last write when it began, the
             \* database file as git add read it, last report, and whether that is about
             \* a torn copy

disk == <<data, db, base>>
git  == <<index, head, saved, remote>>
vars == <<disk, git, calls>>

ConstantsAssumption == MaxVersion \in Nat

\* A copy of the two files; an empty log is from 0 to 0. It is torn (history) if the
\* log had been truncated past the copy of the file before it was read.
Copy    == [db : 0..MaxVersion, from : 0..MaxVersion, to : 0..MaxVersion, torn : BOOLEAN]
Steps   == {"idle", "checkpoint", "add", "log", "diff", "commit", "push"}
Reports == {"none", "error", "no changes", "committed", "pushed"}
Call    == [step : Steps, since : 0..MaxVersion, read : 0..MaxVersion,
            report : Reports, torn : BOOLEAN]

TypeOK ==
  /\ data \in 0..MaxVersion /\ db \in 0..data /\ base \in 0..db
  /\ index \in Copy /\ head \in Copy
  /\ saved \in 0..data /\ remote \in 0..saved
  /\ calls \in [Callers -> Call]

Init ==
  /\ data = 0 /\ db = 0 /\ base = 0 /\ saved = 0 /\ remote = 0
  /\ index = [db |-> 0, from |-> 0, to |-> 0, torn |-> FALSE] /\ head = index
  /\ calls = [c \in Callers |-> [step |-> "idle", since |-> 0, read |-> 0,
                                 report |-> "none", torn |-> FALSE]]

-----------------------------------------------------------------------------
(* The database.                                                           *)

\* Once all of it is in the file, the log may start again.
Restarts(all) == base' = base \/ (all /\ base' = data)

Write ==
  /\ data < MaxVersion /\ data' = data + 1
  /\ Restarts(db = data)
  /\ UNCHANGED <<db, git, calls>>

\* As much of the log as readers and writers let it goes into the file; it may fail.
Checkpointed == db' \in db..data /\ Restarts(db' = data) /\ UNCHANGED data

\* By SQLite, when the log is long or the last handle closes, or by Backup of the store.
Checkpoint == Checkpointed /\ UNCHANGED <<git, calls>>

\* The database that is restored from a copy: the log's writes are laid over the file's,
\* and make no database with a file that lacks the ones before.
Holds(s) ==
  IF s.to = 0 THEN s.db ELSE IF s.from > s.db THEN 0 ELSE s.to

-----------------------------------------------------------------------------
(* The tool.                                                               *)

Goto(c, step)  == calls' = [calls EXCEPT ![c].step = step]
Return(c, rep, torn) ==
  calls' = [calls EXCEPT ![c].step = "idle", ![c].report = rep, ![c].torn = torn]

\* git add and git commit lock the index.
Locked == \E c \in Callers : calls[c].step = "log"

Begin(c) ==
  /\ calls[c].step = "idle"
  /\ calls' = [calls EXCEPT ![c] = [step |-> "checkpoint", since |-> data, read |-> 0,
                                    report |-> "none", torn |-> FALSE]]
  /\ UNCHANGED <<disk, git>>

\* PRAGMA wal_checkpoint(TRUNCATE); its errors go into the report, the call goes on.
Truncate(c) ==
  /\ calls[c].step = "checkpoint" /\ Checkpointed /\ Goto(c, "add")
  /\ UNCHANGED git

\* git add -A: first store.sqlite ...
AddDatabase(c) ==
  /\ calls[c].step = "add" /\ ~Locked
  /\ calls' = [calls EXCEPT ![c].step = "log", ![c].read = db]
  /\ UNCHANGED <<disk, git>>

AddWithoutLog(c) ==
  /\ calls[c].step = "log" /\ Goto(c, "diff")
  /\ index' = [db |-> calls[c].read, from |-> 0, to |-> 0, torn |-> calls[c].read < base]
  /\ UNCHANGED <<disk, head, saved, remote>>

\* ... then store.sqlite-wal, whatever has become of it in between.
AddLog(c) ==
  /\ calls[c].step = "log" /\ Goto(c, "diff")
  /\ index' = [db |-> calls[c].read, torn |-> calls[c].read < base,
               from |-> IF base = data THEN 0 ELSE base,
               to   |-> IF base = data THEN 0 ELSE data]
  /\ UNCHANGED <<disk, head, saved, remote>>

\* It fails if another call has the index, or for reasons of its own.
AddFails(c) ==
  /\ calls[c].step \in {"add", "log"} /\ Return(c, "error", FALSE)
  /\ UNCHANGED <<disk, git>>

SameFiles(s, t) == s.db = t.db /\ s.from = t.from /\ s.to = t.to

\* git diff --cached --quiet
Diff(c) ==
  /\ calls[c].step = "diff"
  /\ IF SameFiles(index, head) THEN Return(c, "no changes", index.torn) ELSE Goto(c, "commit")
  /\ UNCHANGED <<disk, git>>

\* git commit, of what the index has by now. It fails if another call has it locked, or
\* has committed it all meanwhile.
Commit(c) ==
  /\ calls[c].step = "commit" /\ ~Locked /\ ~SameFiles(index, head)
  /\ head' = index
  /\ saved' = IF Holds(index) > saved THEN Holds(index) ELSE saved
  /\ calls' = [calls EXCEPT ![c].step = "push", ![c].torn = index.torn]
  /\ UNCHANGED <<disk, index, remote>>

CommitFails(c) ==
  /\ calls[c].step = "commit" /\ Return(c, "error", FALSE)
  /\ UNCHANGED <<disk, git>>

\* git push; when it fails the call reports that it has committed.
Push(c) ==
  /\ calls[c].step = "push"
  /\ \/ remote' = saved /\ Return(c, "pushed", calls[c].torn)
     \/ remote' = remote /\ Return(c, "committed", calls[c].torn)
  /\ UNCHANGED <<disk, index, head, saved>>

Next ==
  \/ Write \/ Checkpoint
  \/ \E c \in Callers :
       \/ Begin(c) \/ Truncate(c) \/ AddDatabase(c) \/ AddLog(c) \/ AddFails(c)
       \/ Diff(c) \/ Commit(c) \/ CommitFails(c) \/ Push(c)

Spec == Init /\ [][Next]_vars

-----------------------------------------------------------------------------
(* Properties.                                                             *)

Reported(c) == calls[c].report \in {"no changes", "committed", "pushed"}

\* A call that reports no error has all that was written before it began in a
\* commit, its own or another call's, from which it can be restored, and in the remote
\* if it says so; unless what it committed, or found committed, is a torn copy: the log
\* was truncated after git add had read the database, which nothing prevents.
ReportsHold ==
  \A c \in Callers : Reported(c) /\ ~calls[c].torn =>
    /\ calls[c].since <= saved
    /\ calls[c].report = "pushed" => calls[c].since <= remote

\* What the code says of its first step, "WAL checkpoint all databases for consistency":
\* what a call reports can be restored.
CopiesConsistent == \A c \in Callers : Reported(c) => calls[c].since <= saved

\* What the tool says of itself, "Checkpoints all databases, then commits and
\* pushes changes via git": after it reports that nothing was left to commit, the
\* remote has everything. A push that failed is never made up for.
NothingUnpushed ==
  \A c \in Callers : calls[c].report = "no changes" /\ ~calls[c].torn => calls[c].since <= remote

=============================================================================
