----------------------------- MODULE PartsProofs -----------------------------
(***************************************************************************)
(* What each part promises, it promises as a part of the system: no handle *)
(* of a database leaks, a backup's report is true, a reply loses nothing,  *)
(* and what GrantsProofs and PapersProofs show of their parts. All for any *)
(* constants. The invariant of a part is that part's alone, and a step of  *)
(* the system is a step of a part and leaves the others as they are.       *)
(***************************************************************************)
EXTENDS Parts, SequenceTheorems, TLAPS

GrantsP == INSTANCE GrantsProofs WITH
  MaxCalls <- MaxGrantCalls, calls <- grantCalls, made <- grantsMade
PapersP == INSTANCE PapersProofs WITH
  MaxCalls <- MaxPaperCalls, calls <- paperCalls, made <- papersMade

-----------------------------------------------------------------------------
(* Store: the cache and its handles.                                       *)

\* The cache holds open handles, each once, and all of them; a caller's handle is in
\* the cache until it is closed.
CacheInv ==
  /\ \A n \in Spaces : dbs[n] # None => dbs[n] \in (1..opened) \ closed
  /\ \A n, m \in Spaces : dbs[n] # None /\ dbs[n] = dbs[m] => n = m
  /\ \A h \in (1..opened) \ closed : \E n \in Spaces : dbs[n] = h
  /\ \A c \in Callers :
       /\ storeCalls[c].step # "idle" =>
            storeCalls[c].space \in Spaces /\ storeCalls[c].handle = None
       /\ storeCalls[c].handle # None =>
            /\ storeCalls[c].space \in Spaces /\ storeCalls[c].handle \in 1..opened
            /\ \/ storeCalls[c].handle \in closed
               \/ dbs[storeCalls[c].space] = storeCalls[c].handle

StoreInv == Opening!TypeOK /\ CacheInv

\* The invariant implies that no handle leaks.
LEMMA StoreImplied ==
  ASSUME Opening!ConstantsAssumption, StoreInv
  PROVE  Opening!NoneLeaked
<1>1. ASSUME NEW h \in (1..opened) \ closed
      PROVE  \E n \in Spaces : \A m \in Spaces : dbs[m] = h <=> m = n
  <2>1. PICK n \in Spaces : dbs[n] = h
    BY DEF StoreInv, CacheInv
  <2>2. h # None
    BY DEF StoreInv, Opening!TypeOK, Opening!ConstantsAssumption, Opening!Handles
  <2>3. QED
    BY <2>1, <2>2 DEF StoreInv, CacheInv
<1>2. QED
  BY <1>1 DEF StoreInv, CacheInv, Opening!NoneLeaked

\* At the beginning the cache is empty.
LEMMA StoreInit ==
  ASSUME Opening!ConstantsAssumption, Opening!Init
  PROVE  StoreInv
BY DEF Opening!ConstantsAssumption, Opening!Init, StoreInv, Opening!TypeOK, CacheInv,
   Opening!Call, Opening!Handles

\* A call is a record.
LEMMA StoreTypes ==
  ASSUME Opening!ConstantsAssumption, Opening!TypeOK, NEW c \in Callers
  PROVE  /\ storeCalls[c] \in Opening!Call /\ opened \in Nat /\ MaxHandles \in Nat
         /\ storeCalls[c] = [space |-> storeCalls[c].space, step |-> storeCalls[c].step,
                            handle |-> storeCalls[c].handle]
BY DEF Opening!TypeOK, Opening!Call, Opening!ConstantsAssumption

\* A step of c that changes no handle: x is what the call has become.
LEMMA StoreQuiet ==
  ASSUME Opening!ConstantsAssumption, StoreInv, NEW c \in Callers, NEW x \in Opening!Call,
         storeCalls' = [storeCalls EXCEPT ![c] = x], UNCHANGED <<dbs, opened, closed>>,
         x.step # "idle" => x.space \in Spaces /\ x.handle = None,
         x.handle # None => x.space \in Spaces /\ dbs[x.space] = x.handle
  PROVE  StoreInv'
<1>1. storeCalls'[c] = x /\ \A d \in Callers : d # c => storeCalls'[d] = storeCalls[d]
  BY DEF StoreInv, Opening!TypeOK
<1>2. Opening!TypeOK'
  BY DEF StoreInv, Opening!TypeOK
<1>3. x.handle # None => x.handle \in 1..opened
  BY DEF StoreInv, CacheInv
<1>4. ASSUME NEW d \in Callers
      PROVE  /\ storeCalls'[d].step # "idle" =>
                  storeCalls'[d].space \in Spaces /\ storeCalls'[d].handle = None
             /\ storeCalls'[d].handle # None =>
                  /\ storeCalls'[d].space \in Spaces /\ storeCalls'[d].handle \in 1..opened
                  /\ \/ storeCalls'[d].handle \in closed
                     \/ dbs[storeCalls'[d].space] = storeCalls'[d].handle
  <2>1. CASE d = c
    BY <1>1, <1>3, <2>1
  <2>2. CASE d # c
    BY <1>1, <2>2 DEF StoreInv, CacheInv
  <2>3. QED
    BY <2>1, <2>2
<1>5. QED
  BY <1>2, <1>4 DEF StoreInv, CacheInv

\* A database is opened: its namespace had none in the cache.
LEMMA StoreOpens ==
  ASSUME Opening!ConstantsAssumption, StoreInv, NEW c \in Callers, NEW n \in Spaces,
         NEW x \in Opening!Call, storeCalls' = [storeCalls EXCEPT ![c] = x],
         x.step = "idle", x.space = n, x.handle = opened + 1,
         dbs[n] = None, opened < MaxHandles, opened' = opened + 1,
         dbs' = [dbs EXCEPT ![n] = opened'], closed' = closed
  PROVE  StoreInv'
<1>1. storeCalls'[c] = x /\ \A d \in Callers : d # c => storeCalls'[d] = storeCalls[d]
  BY DEF StoreInv, Opening!TypeOK
<1>2. dbs'[n] = opened + 1 /\ \A m \in Spaces : m # n => dbs'[m] = dbs[m]
  BY DEF StoreInv, Opening!TypeOK
<1>3. /\ opened \in Nat /\ opened + 1 \in Opening!Handles /\ closed \subseteq 1..opened
      /\ 1..opened' = 1..opened \cup {opened + 1} /\ opened + 1 \notin 1..opened
  BY DEF StoreInv, Opening!TypeOK, Opening!ConstantsAssumption, Opening!Handles
<1>4. Opening!TypeOK'
  BY <1>3 DEF StoreInv, Opening!TypeOK, Opening!ConstantsAssumption
<1>5. \A m \in Spaces : dbs'[m] # None => dbs'[m] \in (1..opened') \ closed
  BY <1>2, <1>3 DEF StoreInv, CacheInv
<1>6. \A m, k \in Spaces : dbs'[m] # None /\ dbs'[m] = dbs'[k] => m = k
  BY <1>2, <1>3 DEF StoreInv, CacheInv
<1>7. \A h \in (1..opened') \ closed : \E m \in Spaces : dbs'[m] = h
  <2>1. ASSUME NEW h \in (1..opened) \ closed
        PROVE  \E m \in Spaces : dbs'[m] = h
    <3>1. PICK m \in Spaces : dbs[m] = h
      BY DEF StoreInv, CacheInv
    <3>2. h # None
      BY <1>3 DEF Opening!ConstantsAssumption, Opening!Handles, StoreInv, Opening!TypeOK
    <3>3. QED
      BY <1>2, <3>1, <3>2
  <2>2. QED
    BY <1>2, <1>3, <2>1
<1>8. ASSUME NEW d \in Callers
      PROVE  /\ storeCalls'[d].step # "idle" =>
                  storeCalls'[d].space \in Spaces /\ storeCalls'[d].handle = None
             /\ storeCalls'[d].handle # None =>
                  /\ storeCalls'[d].space \in Spaces /\ storeCalls'[d].handle \in 1..opened'
                  /\ \/ storeCalls'[d].handle \in closed
                     \/ dbs'[storeCalls'[d].space] = storeCalls'[d].handle
  <2>1. CASE d = c
    BY <1>1, <1>2, <1>3, <2>1
  <2>2. CASE d # c
    BY <1>1, <1>2, <1>3, <2>2 DEF StoreInv, CacheInv
  <2>3. QED
    BY <2>1, <2>2
<1>9. QED
  BY <1>4, <1>5, <1>6, <1>7, <1>8 DEF StoreInv, CacheInv

\* Close empties the cache, and nothing that was in it stays open.
LEMMA StoreCloses ==
  ASSUME Opening!ConstantsAssumption, StoreInv, Opening!Close
  PROVE  StoreInv'
<1>1. /\ closed' = closed \cup {dbs[n] : n \in {m \in Spaces : dbs[m] # None}}
      /\ \A n \in Spaces : dbs'[n] = None
      /\ UNCHANGED <<opened, storeCalls>>
  BY DEF Opening!Close
<1>2. Opening!TypeOK'
  <2>1. closed' \subseteq 1..opened
    BY <1>1 DEF StoreInv, Opening!TypeOK, CacheInv
  <2>2. dbs' \in [Spaces -> Opening!Handles \cup {None}]
    BY DEF Opening!Close
  <2>3. QED
    BY <1>1, <2>1, <2>2 DEF StoreInv, Opening!TypeOK
<1>3. \A h \in (1..opened) : h \in closed'
  <2>1. ASSUME NEW h \in 1..opened, h \notin closed
        PROVE  h \in closed'
    <3>1. PICK n \in Spaces : dbs[n] = h
      BY <2>1 DEF StoreInv, CacheInv
    <3>2. h # None
      BY DEF StoreInv, Opening!TypeOK, Opening!ConstantsAssumption, Opening!Handles
    <3>3. QED
      BY <1>1, <3>1, <3>2
  <2>2. QED
    BY <1>1, <2>1
<1>4. QED
  BY <1>1, <1>2, <1>3 DEF StoreInv, CacheInv

\* Every step keeps the invariant.
LEMMA StoreNext ==
  ASSUME Opening!ConstantsAssumption, StoreInv, [Opening!Next]_(Opening!vars)
  PROVE  StoreInv'
<1>1. ASSUME NEW c \in Callers, NEW n \in Spaces, Opening!Ask(c, n) PROVE StoreInv'
  <2>1. PICK x : x = [space |-> n, step |-> "check", handle |-> None]
    OBVIOUS
  <2>2. x \in Opening!Call /\ x.space = n /\ x.handle = None
    BY <2>1 DEF Opening!Call
  <2>3. storeCalls' = [storeCalls EXCEPT ![c] = x] /\ UNCHANGED <<dbs, opened, closed>>
    BY <1>1, <2>1 DEF Opening!Ask
  <2>4. QED
    BY <2>2, <2>3, StoreQuiet
<1>2. ASSUME NEW c \in Callers, storeCalls[c].step \in {"check", "open"},
             NEW h \in Opening!Handles \cup {None}, Opening!Has(c, h)
      PROVE  \E x \in Opening!Call :
               /\ storeCalls' = [storeCalls EXCEPT ![c] = x] /\ x.step = "idle"
               /\ x.handle = h /\ x.space = storeCalls[c].space
  <2>1. storeCalls[c] \in Opening!Call
    BY StoreTypes DEF StoreInv
  <2>2. PICK x : x = [storeCalls[c] EXCEPT !.step = "idle", !.handle = h]
    OBVIOUS
  <2>3. x \in Opening!Call /\ x.step = "idle" /\ x.handle = h /\ x.space = storeCalls[c].space
    BY <2>1, <2>2 DEF Opening!Call
  <2>4. storeCalls' = [storeCalls EXCEPT ![c] = x]
    BY <1>2, <2>2 DEF Opening!Has
  <2>5. QED
    BY <2>3, <2>4
<1>3. ASSUME NEW c \in Callers, storeCalls[c].step \in {"check", "open"}
      PROVE  storeCalls[c].space \in Spaces
  BY <1>3 DEF StoreInv, CacheInv
<1>4. ASSUME NEW c \in Callers, Opening!Check(c) PROVE StoreInv'
  <2>1. PICK n \in Spaces : n = storeCalls[c].space
    BY <1>3, <1>4 DEF Opening!Check
  <2>2. PICK h \in Opening!Handles \cup {None} : h = dbs[n]
    BY DEF StoreInv, Opening!TypeOK
  <2>3. CASE h # None
    <3>1. Opening!Has(c, h) /\ UNCHANGED <<dbs, opened, closed>>
      BY <1>4, <2>1, <2>2, <2>3 DEF Opening!Check
    <3>2. PICK x \in Opening!Call :
            /\ storeCalls' = [storeCalls EXCEPT ![c] = x] /\ x.step = "idle"
            /\ x.handle = h /\ x.space = n
      BY <1>2, <1>4, <2>1, <3>1 DEF Opening!Check
    <3>3. QED
      BY <2>2, <3>1, <3>2, StoreQuiet
  <2>4. CASE h = None
    <3>1. PICK x : x = [storeCalls[c] EXCEPT !.step = "open"]
      OBVIOUS
    <3>2. storeCalls' = [storeCalls EXCEPT ![c] = x] /\ UNCHANGED <<dbs, opened, closed>>
      BY <1>4, <2>1, <2>2, <2>4, <3>1 DEF Opening!Check
    <3>3. storeCalls[c] \in Opening!Call /\ storeCalls[c].handle = None
      BY <1>4, StoreTypes DEF StoreInv, Opening!Check, CacheInv
    <3>4. x \in Opening!Call /\ x.space = n /\ x.handle = None
      BY <2>1, <3>1, <3>3 DEF Opening!Call
    <3>5. QED
      BY <2>1, <3>2, <3>4, StoreQuiet
  <2>5. QED
    BY <2>3, <2>4
<1>5. ASSUME NEW c \in Callers, Opening!Open(c) PROVE StoreInv'
  <2>1. PICK n \in Spaces : n = storeCalls[c].space
    BY <1>3, <1>5 DEF Opening!Open
  <2>2. storeCalls[c].step \in {"check", "open"} /\ closed' = closed
    BY <1>5 DEF Opening!Open
  <2>3. CASE dbs[n] # None /\ Opening!Has(c, dbs[n]) /\ UNCHANGED <<dbs, opened>>
    <3>1. PICK h \in Opening!Handles \cup {None} : h = dbs[n]
      BY DEF StoreInv, Opening!TypeOK
    <3>2. PICK x \in Opening!Call :
            /\ storeCalls' = [storeCalls EXCEPT ![c] = x] /\ x.step = "idle"
            /\ x.handle = h /\ x.space = n
      BY <1>2, <2>1, <2>2, <2>3, <3>1
    <3>3. QED
      BY <2>2, <2>3, <3>1, <3>2, StoreQuiet
  <2>4. CASE /\ dbs[n] = None /\ opened < MaxHandles /\ opened' = opened + 1
             /\ dbs' = [dbs EXCEPT ![n] = opened'] /\ Opening!Has(c, opened')
    <3>1. PICK h \in Opening!Handles : h = opened + 1
      BY <2>4 DEF StoreInv, Opening!TypeOK, Opening!ConstantsAssumption, Opening!Handles
    <3>2. Opening!Has(c, h)
      BY <2>4, <3>1
    <3>3. PICK x \in Opening!Call :
            /\ storeCalls' = [storeCalls EXCEPT ![c] = x] /\ x.step = "idle"
            /\ x.handle = h /\ x.space = n
      BY <1>2, <2>1, <2>2, <3>2
    <3>4. QED
      BY <2>2, <2>4, <3>1, <3>3, StoreOpens
  <2>5. CASE dbs[n] = None /\ Opening!Has(c, None) /\ UNCHANGED <<dbs, opened>>
    <3>1. PICK x \in Opening!Call :
            /\ storeCalls' = [storeCalls EXCEPT ![c] = x] /\ x.step = "idle"
            /\ x.handle = None /\ x.space = n
      BY <1>2, <2>1, <2>2, <2>5
    <3>2. QED
      BY <2>2, <2>5, <3>1, StoreQuiet
  <2>6. QED
    BY <1>5, <2>1, <2>3, <2>4, <2>5 DEF Opening!Open
<1>6. CASE UNCHANGED Opening!vars
  BY <1>6 DEF Opening!vars, StoreInv, Opening!TypeOK, CacheInv
<1>7. QED
  BY <1>1, <1>4, <1>5, <1>6, StoreCloses DEF Opening!Next

-----------------------------------------------------------------------------
(* Backup: what a call has seen, and how far it has come.                  *)

\* What a call has seen of the data when it began has come as far as the call has.
Sound(x) ==
  /\ x.since <= data
  /\ x.step = "log" => x.read <= db
  /\ x.step \in {"diff", "commit"} => index.torn \/ x.since <= Saving!Holds(index)
  /\ x.step = "push" => x.torn \/ x.since <= saved
  /\ x.step # "idle" => x.report = "none"
  /\ x.report \in {"no changes", "committed", "pushed"} /\ ~x.torn =>
       x.since <= saved /\ (x.report = "pushed" => x.since <= remote)

\* No copy has what was never written, and the last commit has nothing that no commit has.
CopiesInv == Saving!Holds(index) <= data /\ Saving!Holds(head) <= saved

BackupInv == Saving!TypeOK /\ CopiesInv /\ \A c \in Callers : Sound(backupCalls[c])

\* Versions only grow, and a copy that replaces the index has all or is torn.
Progress ==
  /\ data <= data' /\ db <= db' /\ saved <= saved' /\ remote <= remote'
  /\ index' = index \/ index'.torn \/ data <= Saving!Holds(index')

\* A call is a record, and versions are numbers.
LEMMA BackupTypes ==
  ASSUME Saving!ConstantsAssumption, Saving!TypeOK
  PROVE  /\ MaxVersion \in Nat /\ data \in Nat /\ db \in Nat /\ base \in Nat
         /\ saved \in Nat /\ remote \in Nat
         /\ base <= db /\ db <= data /\ data <= MaxVersion /\ saved <= data /\ remote <= saved
         /\ index \in Saving!Copy /\ head \in Saving!Copy
         /\ \A c \in Callers : backupCalls[c] \in Saving!Call
<1>1. MaxVersion \in Nat /\ data \in 0..MaxVersion /\ db \in 0..data /\ base \in 0..db
      /\ saved \in 0..data /\ remote \in 0..saved
  BY DEF Saving!ConstantsAssumption, Saving!TypeOK
<1>2. data \in Nat /\ db \in Nat /\ base \in Nat /\ saved \in Nat /\ remote \in Nat
  BY <1>1
<1>3. QED
  BY <1>1, <1>2 DEF Saving!TypeOK

\* Versions are compared by way of others.
LEMMA Transitive ==
  ASSUME NEW a \in Nat, NEW b \in Nat, NEW e \in Nat, a <= b, b <= e
  PROVE  a <= e
OBVIOUS

\* What a copy has is a version, and what a call has seen and read are.
LEMMA HoldsType ==
  ASSUME Saving!ConstantsAssumption, NEW s \in Saving!Copy
  PROVE  Saving!Holds(s) \in Nat
BY DEF Saving!ConstantsAssumption, Saving!Copy, Saving!Holds

LEMMA CallType ==
  ASSUME Saving!ConstantsAssumption, NEW x \in Saving!Call
  PROVE  /\ x.since \in Nat /\ x.read \in Nat
         /\ x.since \in 0..MaxVersion /\ x.read \in 0..MaxVersion
         /\ x.step \in Saving!Steps /\ x.report \in Saving!Reports /\ x.torn \in BOOLEAN
BY DEF Saving!ConstantsAssumption, Saving!Call

\* At the beginning nothing was written or reported.
LEMMA BackupInit ==
  ASSUME Saving!ConstantsAssumption, Saving!Init
  PROVE  BackupInv
<1>1. PICK x : x = [step |-> "idle", since |-> 0, read |-> 0, report |-> "none", torn |-> FALSE]
  OBVIOUS
<1>2. PICK s : s = [db |-> 0, from |-> 0, to |-> 0, torn |-> FALSE]
  OBVIOUS
<1>3. /\ data = 0 /\ db = 0 /\ base = 0 /\ saved = 0 /\ remote = 0 /\ index = s /\ head = s
      /\ backupCalls = [c \in Callers |-> x] /\ 0 \in 0..MaxVersion /\ 0 \in 0..0 /\ 0 <= 0
  BY <1>1, <1>2 DEF Saving!Init, Saving!ConstantsAssumption
<1>4. /\ x \in Saving!Call /\ x.since = 0 /\ x.step = "idle" /\ x.report = "none"
      /\ s \in Saving!Copy /\ Saving!Holds(s) = 0
  BY <1>1, <1>2, <1>3 DEF Saving!Call, Saving!Steps, Saving!Reports, Saving!Copy, Saving!Holds
<1>5. Saving!TypeOK
  BY <1>3, <1>4 DEF Saving!TypeOK
<1>6. CopiesInv /\ \A c \in Callers : Sound(backupCalls[c])
  BY <1>3, <1>4 DEF CopiesInv, Sound
<1>7. QED
  BY <1>5, <1>6 DEF BackupInv

\* What was true of a call that does not move stays true.
LEMMA SoundStays ==
  ASSUME Saving!ConstantsAssumption, Saving!TypeOK, Saving!TypeOK', Progress,
         NEW x \in Saving!Call, Sound(x)
  PROVE  Sound(x)'
<1>1. /\ data \in Nat /\ db \in Nat /\ saved \in Nat /\ remote \in Nat
      /\ index \in Saving!Copy /\ Saving!Holds(index) \in Nat
  BY BackupTypes, HoldsType
<1>2. /\ data' \in Nat /\ db' \in Nat /\ saved' \in Nat /\ remote' \in Nat
      /\ index' \in Saving!Copy /\ Saving!Holds(index') \in Nat
  <2>1. data' \in 0..MaxVersion /\ db' \in 0..data' /\ saved' \in 0..data' /\ remote' \in 0..saved'
        /\ index' \in Saving!Copy
    BY DEF Saving!TypeOK
  <2>2. data' \in Nat /\ saved' \in Nat
    BY <2>1
  <2>3. QED
    BY <2>1, <2>2, HoldsType
<1>3. x.since \in Nat /\ x.read \in Nat
  BY CallType
<1>4. /\ x.since <= data'
      /\ x.step = "log" => x.read <= db'
      /\ x.since <= saved => x.since <= saved'
      /\ x.since <= remote => x.since <= remote'
  <2>1. data <= data' /\ db <= db' /\ saved <= saved' /\ remote <= remote'
    BY DEF Progress
  <2>2. x.since <= data /\ (x.step = "log" => x.read <= db)
    BY DEF Sound
  <2>3. QED
    BY <1>1, <1>2, <1>3, <2>1, <2>2, Transitive, Zenon
<1>5. x.step \in {"diff", "commit"} => index'.torn \/ x.since <= Saving!Holds(index')
  <2>1. CASE index' = index
    BY <2>1 DEF Sound
  <2>2. CASE index'.torn
    BY <2>2
  <2>3. CASE data <= Saving!Holds(index')
    <3>1. x.since <= data
      BY DEF Sound
    <3>2. QED
      BY <1>1, <1>2, <1>3, <2>3, <3>1, Transitive, Zenon
  <2>4. QED
    BY <2>1, <2>2, <2>3 DEF Progress
<1>6. Saving!Holds(index)' = Saving!Holds(index')
  BY DEF Saving!Holds
<1>7. QED
  BY <1>4, <1>5, <1>6 DEF Sound

\* A step of the call c that makes x of it.
LEMMA BackupMoves ==
  ASSUME Saving!ConstantsAssumption, BackupInv, NEW c \in Callers, NEW x \in Saving!Call,
         backupCalls' = [backupCalls EXCEPT ![c] = x],
         data' \in 0..MaxVersion, db' \in 0..data', base' \in 0..db', saved' \in 0..data',
         remote' \in 0..saved', index' \in Saving!Copy, head' \in Saving!Copy,
         Progress, CopiesInv', Sound(x)'
  PROVE  BackupInv'
<1>1. backupCalls'[c] = x /\ \A d \in Callers : d # c => backupCalls'[d] = backupCalls[d]
  BY DEF BackupInv, Saving!TypeOK
<1>2. Saving!TypeOK'
  BY DEF BackupInv, Saving!TypeOK
<1>3. ASSUME NEW d \in Callers PROVE Sound(backupCalls[d])'
  <2>1. CASE d = c
    BY <1>1, <2>1 DEF Sound
  <2>2. CASE d # c
    <3>1. PICK y : y = backupCalls[d]
      OBVIOUS
    <3>2. y \in Saving!Call /\ Sound(y)
      BY <3>1, BackupTypes DEF BackupInv
    <3>3. Sound(y)'
      BY <1>2, <3>2, SoundStays DEF BackupInv
    <3>4. QED
      BY <1>1, <2>2, <3>1, <3>3 DEF Sound
  <2>3. QED
    BY <2>1, <2>2
<1>4. QED
  BY <1>2, <1>3 DEF BackupInv

\* Nothing on disk and in git changes.
LEMMA BackupQuiet ==
  ASSUME Saving!ConstantsAssumption, BackupInv, NEW c \in Callers, NEW x \in Saving!Call,
         backupCalls' = [backupCalls EXCEPT ![c] = x],
         UNCHANGED <<data, db, base, index, head, saved, remote>>, Sound(x)
  PROVE  BackupInv'
<1>1. /\ data \in Nat /\ db \in Nat /\ saved \in Nat /\ remote \in Nat
  BY BackupTypes DEF BackupInv
<1>2. Progress
  BY <1>1 DEF Progress
<1>3. CopiesInv' /\ Sound(x)'
  BY DEF BackupInv, CopiesInv, Sound, Saving!Holds
<1>4. QED
  BY <1>2, <1>3, BackupMoves DEF BackupInv, Saving!TypeOK

\* A call that ends with a report.
LEMMA ReturnsAs ==
  ASSUME Saving!ConstantsAssumption, BackupInv, NEW c \in Callers,
         NEW rep \in Saving!Reports, NEW torn \in BOOLEAN, Saving!Return(c, rep, torn)
  PROVE  \E x \in Saving!Call :
           /\ backupCalls' = [backupCalls EXCEPT ![c] = x] /\ x.step = "idle"
           /\ x.since = backupCalls[c].since /\ x.report = rep /\ x.torn = torn
<1>1. PICK x : x = [backupCalls[c] EXCEPT !.step = "idle", !.report = rep, !.torn = torn]
  OBVIOUS
<1>2. backupCalls[c] \in Saving!Call /\ backupCalls' = [backupCalls EXCEPT ![c] = x]
  BY <1>1, BackupTypes DEF BackupInv, Saving!Return
<1>3. /\ x \in Saving!Call /\ x.step = "idle" /\ x.since = backupCalls[c].since
      /\ x.report = rep /\ x.torn = torn
  BY <1>1, <1>2 DEF Saving!Call, Saving!Steps
<1>4. QED
  BY <1>2, <1>3

\* A call that goes on to another step.
LEMMA GoesTo ==
  ASSUME Saving!ConstantsAssumption, BackupInv, NEW c \in Callers, NEW s \in Saving!Steps,
         Saving!Goto(c, s)
  PROVE  \E x \in Saving!Call :
           /\ backupCalls' = [backupCalls EXCEPT ![c] = x] /\ x.step = s
           /\ x.since = backupCalls[c].since /\ x.report = backupCalls[c].report
<1>1. PICK x : x = [backupCalls[c] EXCEPT !.step = s]
  OBVIOUS
<1>2. backupCalls[c] \in Saving!Call /\ backupCalls' = [backupCalls EXCEPT ![c] = x]
  BY <1>1, BackupTypes DEF BackupInv, Saving!Goto
<1>3. /\ x \in Saving!Call /\ x.step = s /\ x.since = backupCalls[c].since
      /\ x.report = backupCalls[c].report
  BY <1>1, <1>2 DEF Saving!Call
<1>4. QED
  BY <1>2, <1>3

\* A write, or a checkpoint by whom it may be: the versions grow, the copies stay.
LEMMA DiskMoves ==
  ASSUME Saving!ConstantsAssumption, BackupInv,
         UNCHANGED <<index, head, saved, remote>>,
         \/ data < MaxVersion /\ data' = data + 1 /\ UNCHANGED db /\ Saving!Restarts(db = data)
         \/ Saving!Checkpointed
  PROVE  /\ data' \in 0..MaxVersion /\ db' \in 0..data' /\ base' \in 0..db'
         /\ saved' \in 0..data' /\ remote' \in 0..saved'
         /\ index' \in Saving!Copy /\ head' \in Saving!Copy /\ Progress /\ CopiesInv'
<1>1. /\ MaxVersion \in Nat /\ data \in Nat /\ db \in Nat /\ base \in Nat
      /\ saved \in Nat /\ remote \in Nat
      /\ base <= db /\ db <= data /\ data <= MaxVersion /\ saved <= data /\ remote <= saved
      /\ index \in Saving!Copy /\ head \in Saving!Copy
      /\ Saving!Holds(index) \in Nat /\ Saving!Holds(head) \in Nat
  BY BackupTypes, HoldsType DEF BackupInv
<1>2. /\ data' \in Nat /\ db' \in Nat /\ base' \in Nat
      /\ data <= data' /\ data' <= MaxVersion /\ db <= db' /\ db' <= data' /\ base' <= db'
  <2>1. CASE data < MaxVersion /\ data' = data + 1 /\ UNCHANGED db /\ Saving!Restarts(db = data)
    BY <1>1, <2>1 DEF Saving!Restarts
  <2>2. CASE Saving!Checkpointed
    BY <1>1, <2>2 DEF Saving!Checkpointed, Saving!Restarts
  <2>3. QED
    BY <2>1, <2>2
<1>3. /\ data' \in 0..MaxVersion /\ db' \in 0..data' /\ base' \in 0..db'
      /\ saved' \in 0..data' /\ remote' \in 0..saved'
  BY <1>1, <1>2
<1>4. Progress
  BY <1>1, <1>2 DEF Progress
<1>5. CopiesInv'
  BY <1>1, <1>2 DEF BackupInv, CopiesInv, Saving!Holds
<1>6. QED
  BY <1>1, <1>3, <1>4, <1>5

\* Every step keeps the invariant.
LEMMA BackupNext ==
  ASSUME Saving!ConstantsAssumption, BackupInv, [Saving!Next]_(Saving!vars)
  PROVE  BackupInv'
<1> USE DEF Saving!disk, Saving!git
<1>0. /\ MaxVersion \in Nat /\ data \in Nat /\ db \in Nat /\ base \in Nat
      /\ saved \in Nat /\ remote \in Nat
      /\ base <= db /\ db <= data /\ data <= MaxVersion /\ saved <= data /\ remote <= saved
      /\ index \in Saving!Copy /\ head \in Saving!Copy
      /\ Saving!Holds(index) \in Nat /\ Saving!Holds(head) \in Nat
      /\ Saving!TypeOK /\ CopiesInv
      /\ \A c \in Callers : backupCalls[c] \in Saving!Call /\ Sound(backupCalls[c])
  BY BackupTypes, HoldsType DEF BackupInv
<1>1. CASE Saving!Write \/ Saving!Checkpoint
  <2>1. UNCHANGED <<index, head, saved, remote, backupCalls>>
    BY <1>1 DEF Saving!Write, Saving!Checkpoint
  <2>2. /\ data' \in 0..MaxVersion /\ db' \in 0..data' /\ base' \in 0..db'
        /\ saved' \in 0..data' /\ remote' \in 0..saved'
        /\ index' \in Saving!Copy /\ head' \in Saving!Copy /\ Progress /\ CopiesInv'
    BY <1>1, <2>1, DiskMoves DEF Saving!Write, Saving!Checkpoint
  <2>3. Saving!TypeOK'
    BY <1>0, <2>1, <2>2 DEF Saving!TypeOK
  <2>4. ASSUME NEW c \in Callers PROVE Sound(backupCalls[c])'
    <3>1. PICK y : y = backupCalls[c]
      OBVIOUS
    <3>2. Sound(y)'
      BY <1>0, <2>2, <2>3, <3>1, SoundStays
    <3>3. QED
      BY <2>1, <3>1, <3>2 DEF Sound
  <2>5. QED
    BY <2>2, <2>3, <2>4 DEF BackupInv
<1>2. ASSUME NEW c \in Callers, Saving!Begin(c) PROVE BackupInv'
  <2>1. PICK x : x = [step |-> "checkpoint", since |-> data, read |-> 0, report |-> "none",
                      torn |-> FALSE]
    OBVIOUS
  <2>2. backupCalls' = [backupCalls EXCEPT ![c] = x]
        /\ UNCHANGED <<data, db, base, index, head, saved, remote>>
    BY <1>2, <2>1 DEF Saving!Begin
  <2>3. data \in 0..MaxVersion /\ 0 \in 0..MaxVersion /\ data <= data
    BY <1>0
  <2>4. x \in Saving!Call /\ Sound(x)
    BY <2>1, <2>3 DEF Saving!Call, Saving!Steps, Saving!Reports, Sound
  <2>5. QED
    BY <2>2, <2>4, BackupQuiet
<1>3. ASSUME NEW c \in Callers, Saving!Truncate(c) PROVE BackupInv'
  <2>1. /\ backupCalls[c].step = "checkpoint" /\ Saving!Checkpointed /\ Saving!Goto(c, "add")
        /\ UNCHANGED <<index, head, saved, remote>>
    BY <1>3 DEF Saving!Truncate
  <2>2. /\ data' \in 0..MaxVersion /\ db' \in 0..data' /\ base' \in 0..db'
        /\ saved' \in 0..data' /\ remote' \in 0..saved'
        /\ index' \in Saving!Copy /\ head' \in Saving!Copy /\ Progress /\ CopiesInv'
    BY <2>1, DiskMoves
  <2>3. PICK x \in Saving!Call :
          /\ backupCalls' = [backupCalls EXCEPT ![c] = x] /\ x.step = "add"
          /\ x.since = backupCalls[c].since /\ x.report = backupCalls[c].report
    BY <2>1, GoesTo DEF Saving!Steps
  <2>4. x.since <= data' /\ x.report = "none"
    BY <1>0, <2>1, <2>3 DEF Sound, Saving!Checkpointed
  <2>5. Sound(x)'
    BY <2>3, <2>4 DEF Sound
  <2>6. QED
    BY <2>2, <2>3, <2>5, BackupMoves
<1>4. ASSUME NEW c \in Callers, Saving!AddDatabase(c) PROVE BackupInv'
  <2>1. PICK x : x = [backupCalls[c] EXCEPT !.step = "log", !.read = db]
    OBVIOUS
  <2>2. /\ backupCalls[c].step = "add" /\ backupCalls' = [backupCalls EXCEPT ![c] = x]
        /\ UNCHANGED <<data, db, base, index, head, saved, remote>>
    BY <1>4, <2>1 DEF Saving!AddDatabase
  <2>3. db \in 0..MaxVersion /\ db <= db
    BY <1>0
  <2>4. /\ x \in Saving!Call /\ x.step = "log" /\ x.read = db
        /\ x.since = backupCalls[c].since /\ x.report = backupCalls[c].report
    BY <1>0, <2>1, <2>3 DEF Saving!Call, Saving!Steps
  <2>5. Sound(x)
    BY <1>0, <2>2, <2>3, <2>4 DEF Sound
  <2>6. QED
    BY <2>2, <2>4, <2>5, BackupQuiet
<1>5. ASSUME NEW c \in Callers, Saving!AddLog(c) PROVE BackupInv'
  <2>1. PICK s : s = [db |-> backupCalls[c].read, torn |-> backupCalls[c].read < base,
                      from |-> IF base = data THEN 0 ELSE base,
                      to   |-> IF base = data THEN 0 ELSE data]
    OBVIOUS
  <2>2. /\ backupCalls[c].step = "log" /\ Saving!Goto(c, "diff") /\ index' = s
        /\ UNCHANGED <<data, db, base, head, saved, remote>>
    BY <1>5, <2>1 DEF Saving!AddLog
  <2>3. /\ backupCalls[c].read \in 0..MaxVersion /\ backupCalls[c].read \in Nat
        /\ backupCalls[c].read <= db /\ backupCalls[c].since <= data
        /\ backupCalls[c].report = "none" /\ backupCalls[c].since \in Nat
    BY <1>0, <2>2, CallType DEF Sound
  <2>4. s \in Saving!Copy /\ Saving!Holds(s) <= data /\ (s.torn \/ data <= Saving!Holds(s))
    <3>1. /\ s.db = backupCalls[c].read /\ s.torn = (s.db < base)
          /\ s.from = IF base = data THEN 0 ELSE base
          /\ s.to = IF base = data THEN 0 ELSE data
      BY <2>1
    <3>2. s.from \in 0..MaxVersion /\ s.to \in 0..MaxVersion
      BY <1>0, <3>1
    <3>3. s \in Saving!Copy
      BY <2>1, <2>3, <3>1, <3>2 DEF Saving!Copy
    <3>4. s.db \in Nat /\ s.db <= data
      BY <1>0, <2>3, <3>1
    <3>5. Saving!Holds(s) <= data /\ (s.torn \/ data <= Saving!Holds(s))
      <4>1. CASE base = data
        <5>1. s.to = 0 /\ Saving!Holds(s) = s.db
          BY <3>1, <4>1 DEF Saving!Holds
        <5>2. s.torn \/ data <= s.db
          <6>1. CASE s.db < base
            BY <3>1, <6>1
          <6>2. CASE ~(s.db < base)
            BY <1>0, <3>4, <4>1, <6>2
          <6>3. QED
            BY <6>1, <6>2
        <5>3. QED
          BY <3>4, <5>1, <5>2
      <4>2. CASE base # data
        <5>1. s.to = data /\ s.from = base /\ data # 0 /\ 0 <= data /\ data <= data
          BY <1>0, <3>1, <4>2
        <5>2. Saving!Holds(s) = IF base > s.db THEN 0 ELSE data
          BY <5>1 DEF Saving!Holds
        <5>3. base > s.db => s.torn
          BY <1>0, <3>1, <3>4
        <5>4. QED
          BY <5>1, <5>2, <5>3
      <4>3. QED
        BY <4>1, <4>2
    <3>6. QED
      BY <3>3, <3>5
  <2>5. PICK x \in Saving!Call :
          /\ backupCalls' = [backupCalls EXCEPT ![c] = x] /\ x.step = "diff"
          /\ x.since = backupCalls[c].since /\ x.report = backupCalls[c].report
    BY <2>2, GoesTo DEF Saving!Steps
  <2>6. Saving!Holds(s) \in Nat
    BY <2>4, HoldsType
  <2>7. Progress /\ CopiesInv'
    BY <1>0, <2>2, <2>4 DEF Progress, CopiesInv, Saving!Holds
  <2>8. s.torn \/ x.since <= Saving!Holds(s)
    BY <1>0, <2>3, <2>4, <2>5, <2>6
  <2>9. Sound(x)'
    BY <2>2, <2>3, <2>5, <2>8 DEF Sound, Saving!Holds
  <2>10. QED
    BY <1>0, <2>2, <2>4, <2>5, <2>7, <2>9, BackupMoves DEF Saving!TypeOK
<1>6. ASSUME NEW c \in Callers, Saving!AddFails(c) \/ Saving!CommitFails(c) PROVE BackupInv'
  <2>1. /\ Saving!Return(c, "error", FALSE)
        /\ UNCHANGED <<data, db, base, index, head, saved, remote>>
    BY <1>6 DEF Saving!AddFails, Saving!CommitFails
  <2>2. PICK x \in Saving!Call :
          /\ backupCalls' = [backupCalls EXCEPT ![c] = x] /\ x.step = "idle"
          /\ x.since = backupCalls[c].since /\ x.report = "error" /\ x.torn = FALSE
    BY <2>1, ReturnsAs DEF Saving!Reports
  <2>3. Sound(x)
    BY <1>0, <2>2 DEF Sound
  <2>4. QED
    BY <2>1, <2>2, <2>3, BackupQuiet
<1>7. ASSUME NEW c \in Callers, Saving!Diff(c) PROVE BackupInv'
  <2>1. /\ backupCalls[c].step = "diff"
        /\ UNCHANGED <<data, db, base, index, head, saved, remote>>
    BY <1>7 DEF Saving!Diff
  <2>2. /\ backupCalls[c].since <= data /\ backupCalls[c].report = "none"
        /\ index.torn \/ backupCalls[c].since <= Saving!Holds(index)
        /\ backupCalls[c].since \in Nat /\ index.torn \in BOOLEAN
    BY <1>0, <2>1, CallType DEF Sound, Saving!Copy
  <2>3. CASE Saving!SameFiles(index, head)
    <3>0. PICK torn \in BOOLEAN : torn = index.torn
      BY <2>2
    <3>1. PICK rep \in Saving!Reports : rep = "no changes" /\ Saving!Return(c, rep, torn)
      BY <1>7, <2>3, <3>0 DEF Saving!Diff, Saving!Reports
    <3>2. PICK x \in Saving!Call :
            /\ backupCalls' = [backupCalls EXCEPT ![c] = x] /\ x.step = "idle"
            /\ x.since = backupCalls[c].since /\ x.report = rep /\ x.torn = torn
      <4>1. rep \in Saving!Reports /\ torn \in BOOLEAN /\ Saving!Return(c, rep, torn)
        BY <3>0, <3>1
      <4>2. QED
        BY <4>1, ReturnsAs
    <3>3. Saving!Holds(index) = Saving!Holds(head)
      BY <2>3 DEF Saving!SameFiles, Saving!Holds
    <3>4. Saving!Holds(head) <= saved
      BY <1>0 DEF CopiesInv
    <3>5. x.torn \/ x.since <= saved
      BY <1>0, <2>2, <3>0, <3>2, <3>3, <3>4, Transitive, Zenon
    <3>6. Sound(x)
      BY <2>2, <3>1, <3>2, <3>5 DEF Sound
    <3>7. QED
      BY <2>1, <3>2, <3>6, BackupQuiet
  <2>4. CASE ~Saving!SameFiles(index, head)
    <3>1. Saving!Goto(c, "commit")
      BY <1>7, <2>4 DEF Saving!Diff
    <3>2. PICK x \in Saving!Call :
            /\ backupCalls' = [backupCalls EXCEPT ![c] = x] /\ x.step = "commit"
            /\ x.since = backupCalls[c].since /\ x.report = backupCalls[c].report
      BY <3>1, GoesTo DEF Saving!Steps
    <3>3. Sound(x)
      BY <2>2, <3>2 DEF Sound
    <3>4. QED
      BY <2>1, <3>2, <3>3, BackupQuiet
  <2>5. QED
    BY <2>3, <2>4
<1>8. ASSUME NEW c \in Callers, Saving!Commit(c) PROVE BackupInv'
  <2>1. PICK x : x = [backupCalls[c] EXCEPT !.step = "push", !.torn = index.torn]
    OBVIOUS
  <2>2. /\ backupCalls[c].step = "commit" /\ backupCalls' = [backupCalls EXCEPT ![c] = x]
        /\ head' = index
        /\ saved' = IF Saving!Holds(index) > saved THEN Saving!Holds(index) ELSE saved
        /\ UNCHANGED <<data, db, base, index, remote>>
    BY <1>8, <2>1 DEF Saving!Commit
  <2>3. /\ backupCalls[c].since <= data /\ backupCalls[c].report = "none"
        /\ index.torn \/ backupCalls[c].since <= Saving!Holds(index)
        /\ backupCalls[c].since \in Nat /\ index.torn \in BOOLEAN
    BY <1>0, <2>2, CallType DEF Sound, Saving!Copy
  <2>4. /\ x \in Saving!Call /\ x.step = "push" /\ x.torn = index.torn
        /\ x.since = backupCalls[c].since /\ x.report = backupCalls[c].report
    BY <1>0, <2>1, <2>3 DEF Saving!Call, Saving!Steps
  <2>5. /\ saved' \in Nat /\ saved <= saved' /\ Saving!Holds(index) <= saved' /\ saved' <= data
        /\ remote <= saved'
    BY <1>0, <2>2 DEF CopiesInv
  <2>6. saved' \in 0..data' /\ remote' \in 0..saved'
    BY <1>0, <2>2, <2>5
  <2>7. Progress
    BY <1>0, <2>2, <2>5 DEF Progress
  <2>8. CopiesInv'
    BY <1>0, <2>2, <2>5 DEF CopiesInv, Saving!Holds
  <2>9. x.torn \/ x.since <= saved'
    BY <1>0, <2>3, <2>4, <2>5
  <2>10. Sound(x)'
    BY <2>2, <2>3, <2>4, <2>9 DEF Sound
  <2>11. QED
    BY <1>0, <2>2, <2>4, <2>6, <2>7, <2>8, <2>10, BackupMoves DEF Saving!TypeOK
<1>9. ASSUME NEW c \in Callers, Saving!Push(c) PROVE BackupInv'
  <2>1. /\ backupCalls[c].step = "push" /\ UNCHANGED <<data, db, base, index, head, saved>>
        /\ \/ remote' = saved /\ Saving!Return(c, "pushed", backupCalls[c].torn)
           \/ remote' = remote /\ Saving!Return(c, "committed", backupCalls[c].torn)
    BY <1>9 DEF Saving!Push
  <2>2. /\ backupCalls[c].since <= data /\ backupCalls[c].torn \in BOOLEAN
        /\ backupCalls[c].torn \/ backupCalls[c].since <= saved
    BY <1>0, <2>1, CallType DEF Sound
  <2>3. PICK x \in Saving!Call :
          /\ backupCalls' = [backupCalls EXCEPT ![c] = x] /\ x.step = "idle"
          /\ x.since = backupCalls[c].since /\ x.torn = backupCalls[c].torn
          /\ x.report \in {"pushed", "committed"} /\ (x.report = "pushed" => remote' = saved)
    <3>1. PICK torn \in BOOLEAN : torn = backupCalls[c].torn
      BY <2>2
    <3>2. PICK rep \in {"pushed", "committed"} :
            Saving!Return(c, rep, torn) /\ (rep = "pushed" => remote' = saved)
      BY <2>1, <3>1
    <3>3. rep \in Saving!Reports
      BY DEF Saving!Reports
    <3>4. QED
      BY <3>1, <3>2, <3>3, ReturnsAs
  <2>4. remote' \in 0..saved' /\ remote <= remote'
    BY <1>0, <2>1
  <2>5. Progress /\ CopiesInv'
    BY <1>0, <2>1, <2>4 DEF Progress, CopiesInv, Saving!Holds
  <2>6. Sound(x)'
    BY <2>1, <2>2, <2>3 DEF Sound
  <2>7. QED
    BY <1>0, <2>1, <2>3, <2>4, <2>5, <2>6, BackupMoves DEF Saving!TypeOK
<1>10. CASE UNCHANGED Saving!vars
  BY <1>10 DEF Saving!vars, BackupInv, Saving!TypeOK, CopiesInv, Sound, Saving!Holds
<1>11. QED
  BY <1>1, <1>2, <1>3, <1>4, <1>5, <1>6, <1>7, <1>8, <1>9, <1>10 DEF Saving!Next

-----------------------------------------------------------------------------
(* Reply: the slices of the text.                                          *)

\* A set of numbers between two has a least and a greatest one.
LEMMA MinMax ==
  ASSUME NEW a \in Nat, NEW b \in Nat, NEW T, T \subseteq a..b, T # {}
  PROVE  /\ Replying!Min(T) \in T /\ \A k \in T : Replying!Min(T) <= k
         /\ Replying!Max(T) \in T /\ \A k \in T : k <= Replying!Max(T)
<1>1. T \subseteq Nat
  OBVIOUS
<1>2. \E m \in T : \A k \in T : m <= k
  BY <1>1, PapersP!Least
<1>3. \E m \in T : \A k \in T : m >= k
  <2> DEFINE U == {b - k : k \in T}
  <2>1. U \subseteq Nat /\ U # {}
    OBVIOUS
  <2>2. PICK d \in U : \A e \in U : d <= e
    <3> HIDE DEF U
    <3> QED BY <2>1, PapersP!Least
  <2>3. PICK m \in T : d = b - m
    OBVIOUS
  <2>4. ASSUME NEW k \in T PROVE m >= k
    <3>1. b - k \in U
      OBVIOUS
    <3>2. b - m <= b - k
      BY <2>2, <2>3, <3>1
    <3>3. b \in Nat /\ k \in Nat /\ m \in Nat
      BY <1>1
    <3>4. QED
      BY <3>2, <3>3
  <2>5. QED
    BY <2>4
<1>4. Replying!Min(T) \in T /\ \A k \in T : Replying!Min(T) <= k
  BY <1>2 DEF Replying!Min
<1>5. Replying!Max(T) \in T /\ \A k \in T : Replying!Max(T) >= k
  BY <1>3 DEF Replying!Max
<1>6. QED
  BY <1>1, <1>4, <1>5

\* While chunks are posted, those before the next one were, or are blank.
PostInv ==
  /\ next = 0 => posted = {}
  /\ next \in 1..Len(chunks) =>
       /\ posted \subseteq 1..(next - 1)
       /\ \A j \in 1..(next - 1) : j \in posted \/ Replying!Ink(chunks[j]) = {}

\* A chunk ends within what is split.
EndInv == \A i \in 1..Len(chunks) : chunks[i].last <= done

ReplyInv == Replying!TypeOK /\ PostInv /\ EndInv /\ Replying!NothingCutOut

\* At the beginning nothing is split.
LEMMA ReplyInit ==
  ASSUME Replying!ConstantsAssumption, Replying!Init
  PROVE  ReplyInv
<1>1. chunks = <<>> /\ Len(chunks) = 0 /\ chunks \in Seq(Replying!Slice) /\ Len(text) \in Nat
  BY EmptySeq, LenProperties DEF Replying!Init, Replying!ConstantsAssumption
<1>2. QED
  BY <1>1
     DEF Replying!Init, ReplyInv, Replying!TypeOK, PostInv, EndInv, Replying!NothingCutOut

\* A slice without the blanks at its ends is within it, and has all that is no blank.
LEMMA TrimFacts ==
  ASSUME NEW f \in Nat \ {0}, NEW l \in Nat, f <= l + 1,
         NEW t, t = Replying!Trim([first |-> f, last |-> l])
  PROVE  /\ t \in Replying!Slice /\ f <= t.first /\ t.last <= l /\ t.last - t.first <= l - f
         /\ \A b \in f..l : text[b] \notin Replying!Blank => b \in t.first..t.last
<1> DEFINE s == [first |-> f, last |-> l]
<1>1. /\ s.first = f /\ s.last = l
      /\ Replying!Ink(s) = {i \in f..l : text[i] \notin Replying!Blank}
  BY DEF Replying!Ink
<1> HIDE DEF s
<1>2. CASE Replying!Ink(s) = {}
  <2>1. t = [s EXCEPT !.last = f - 1]
    BY <1>1, <1>2 DEF Replying!Trim, s
  <2>2. t = [first |-> f, last |-> f - 1] /\ f - 1 \in Nat
    BY <2>1 DEF s
  <2>3. t \in Replying!Slice /\ t.first = f /\ t.last = f - 1
    BY <2>2 DEF Replying!Slice
  <2>4. \A b \in f..l : text[b] \in Replying!Blank
    BY <1>1, <1>2
  <2>5. QED
    BY <2>3, <2>4
<1>3. CASE Replying!Ink(s) # {}
  <2>1. Replying!Ink(s) \subseteq f..l
    BY <1>1
  <2>2. PICK lo, hi : lo = Replying!Min(Replying!Ink(s)) /\ hi = Replying!Max(Replying!Ink(s))
    OBVIOUS
  <2>3. /\ lo \in Replying!Ink(s) /\ hi \in Replying!Ink(s)
        /\ \A k \in Replying!Ink(s) : lo <= k /\ k <= hi
    BY <1>3, <2>1, <2>2, MinMax
  <2>4. t = [first |-> lo, last |-> hi]
    BY <1>1, <1>3, <2>2 DEF Replying!Trim, s
  <2>5. lo \in f..l /\ hi \in f..l /\ lo <= hi
    BY <2>1, <2>3
  <2>6. t \in Replying!Slice /\ t.first = lo /\ t.last = hi
    BY <2>4, <2>5 DEF Replying!Slice
  <2>7. \A b \in f..l : text[b] \notin Replying!Blank => b \in lo..hi
    BY <1>1, <2>3, <2>5
  <2>8. QED
    BY <2>5, <2>6, <2>7
<1>4. QED
  BY <1>2, <1>3

\* A cut drops newlines only, of those that the window has.
LEMMA CutFacts ==
  ASSUME Replying!ConstantsAssumption, Replying!TypeOK
  PROVE  /\ Replying!Cut.take \in 0..Limit /\ Replying!Cut.drop \in 0..2
         /\ Replying!Cut.take + Replying!Cut.drop <= Limit
         /\ \A b \in (done + Replying!Cut.take + 1)
                       ..(done + Replying!Cut.take + Replying!Cut.drop) : text[b] = NL
<1>1. Limit \in Nat /\ done \in Nat
  BY LenProperties DEF Replying!ConstantsAssumption, Replying!TypeOK
<1>2. ASSUME NEW n \in 1..2, Replying!LastCut(n) # -1
      PROVE  /\ Replying!LastCut(n) \in 0..Limit /\ Replying!LastCut(n) + n <= Limit
             /\ \A k \in 1..n : text[done + Replying!LastCut(n) + k] = NL
  <2> DEFINE at == {i \in 0..(Limit - n) : \A k \in 1..n : text[done + i + k] = NL}
  <2>1. Replying!LastCut(n) =
          IF at = {} \/ Replying!Max(at) <= Limit \div 4 THEN -1 ELSE Replying!Max(at)
    BY DEF Replying!LastCut
  <2>2. at \subseteq 0..(Limit - n)
    OBVIOUS
  <2>3. \A i \in at : \A k \in 1..n : text[done + i + k] = NL
    OBVIOUS
  <2> HIDE DEF at
  <2>4. at # {} /\ Replying!LastCut(n) = Replying!Max(at)
    BY <1>2, <2>1
  <2>5. PICK i : i \in 0..(Limit - n)
    BY <2>2, <2>4
  <2>6. Limit - n \in Nat
    BY <1>1, <2>5
  <2>7. PICK m : m = Replying!Max(at)
    OBVIOUS
  <2>8. m \in at
    BY <2>2, <2>4, <2>6, <2>7, MinMax
  <2>9. m \in 0..(Limit - n) /\ \A k \in 1..n : text[done + m + k] = NL
    BY <2>2, <2>3, <2>8
  <2>10. m \in 0..Limit /\ m + n <= Limit
    BY <1>1, <2>9
  <2>11. QED
    BY <2>4, <2>7, <2>9, <2>10
<1>3. PICK one, two : one = Replying!LastCut(1) /\ two = Replying!LastCut(2)
  OBVIOUS
<1>4. CASE two # -1
  <2>1. Replying!Cut.take = two /\ Replying!Cut.drop = 2
    BY <1>3, <1>4 DEF Replying!Cut
  <2>2. two \in 0..Limit /\ two + 2 <= Limit /\ \A k \in 1..2 : text[done + two + k] = NL
    BY <1>2, <1>3, <1>4
  <2>3. ASSUME NEW b \in (done + two + 1)..(done + two + 2) PROVE text[b] = NL
    <3>1. b - done - two \in 1..2 /\ b = done + two + (b - done - two)
      BY <1>1, <2>2
    <3>2. QED
      BY <2>2, <3>1
  <2>4. QED
    BY <2>1, <2>2, <2>3
<1>5. CASE two = -1 /\ one # -1
  <2>1. Replying!Cut.take = one /\ Replying!Cut.drop = 1
    BY <1>3, <1>5 DEF Replying!Cut
  <2>2. one \in 0..Limit /\ one + 1 <= Limit /\ \A k \in 1..1 : text[done + one + k] = NL
    BY <1>2, <1>3, <1>5
  <2>3. ASSUME NEW b \in (done + one + 1)..(done + one + 1) PROVE text[b] = NL
    <3>1. b = done + one + 1
      BY <1>1, <2>2
    <3>2. QED
      BY <2>2, <3>1
  <2>4. QED
    BY <2>1, <2>2, <2>3
<1>6. CASE two = -1 /\ one = -1
  <2>1. Replying!Cut.take = Limit /\ Replying!Cut.drop = 0
    BY <1>3, <1>6 DEF Replying!Cut
  <2>2. QED
    BY <1>1, <2>1
<1>7. QED
  BY <1>4, <1>5, <1>6

\* A slice is added behind the others, and covers what is split meanwhile.
LEMMA ReplyAdds ==
  ASSUME Replying!ConstantsAssumption, ReplyInv, NEW t \in Replying!Slice,
         chunks' = Append(chunks, t),
         UNCHANGED <<text, posted>>, next = 0, next' \in 0..1, done' \in done..Len(text),
         next' = 1 => done' = Len(text),
         done < t.first, t.last <= done', t.last - t.first < Limit,
         \A b \in (done + 1)..done' : text[b] \notin Replying!Blank => b \in t.first..t.last
  PROVE  ReplyInv'
<1>1. /\ Len(text) \in Nat /\ done \in Nat /\ Len(chunks) \in Nat
      /\ \A i \in 1..Len(chunks) : chunks[i] \in Replying!Slice
  BY LenProperties, ElementOfSeq DEF Replying!ConstantsAssumption, ReplyInv, Replying!TypeOK
<1>2. PICK n \in Nat : n = Len(chunks)
  BY <1>1
<1>3. /\ chunks' \in Seq(Replying!Slice) /\ chunks' # <<>> /\ Len(chunks') = n + 1
      /\ chunks'[n + 1] = t /\ \A i \in 1..n : chunks'[i] = chunks[i]
  BY <1>2, AppendProperties DEF ReplyInv, Replying!TypeOK
<1>4. \A i \in 1..(n + 1) : i = n + 1 \/ (i \in 1..n /\ i # n + 1)
  BY <1>2
<1>5. posted = {} /\ done' \in Nat /\ done <= done' /\ t.first \in Nat /\ t.last \in Nat
  BY <1>1 DEF ReplyInv, PostInv, Replying!Slice
<1>6. Replying!TypeOK'
  BY <1>3, <1>5 DEF ReplyInv, Replying!TypeOK
<1>7. PostInv'
  <2>1. posted' = {}
    BY <1>5
  <2>2. \A j \in 1..(next' - 1) : FALSE
    <3>1. next' = 0 \/ next' = 1
      OBVIOUS
    <3>2. \A j \in 1..(0 - 1) : FALSE
      OBVIOUS
    <3>3. \A j \in 1..(1 - 1) : FALSE
      OBVIOUS
    <3>4. QED
      BY <3>1, <3>2, <3>3
  <2>3. QED
    BY <2>1, <2>2, Zenon DEF PostInv
<1>8. \A i \in 1..n : chunks[i].last \in Nat /\ chunks[i].first \in Nat /\ chunks[i].last <= done
  BY <1>1, <1>2 DEF ReplyInv, EndInv, Replying!Slice
<1>9. EndInv'
  <2>1. ASSUME NEW i \in 1..(n + 1) PROVE chunks'[i].last <= done'
    <3>1. CASE i = n + 1
      BY <1>3, <3>1
    <3>2. CASE i \in 1..n
      BY <1>1, <1>3, <1>5, <1>8, <3>2
    <3>3. QED
      BY <1>4, <3>1, <3>2
  <2>2. QED
    BY <1>3, <2>1 DEF EndInv
<1>10. \A i \in 1..(n + 1) : chunks'[i].last - chunks'[i].first < Limit
  <2>1. \A i \in 1..n : chunks[i].last - chunks[i].first < Limit
    BY <1>2 DEF ReplyInv, Replying!NothingCutOut
  <2>2. QED
    BY <1>3, <1>4, <2>1
<1>11. \A j \in 1..(n + 1) : \A i \in 1..(j - 1) : chunks'[i].last < chunks'[j].first
  <2>1. ASSUME NEW j \in 1..(n + 1), NEW i \in 1..(j - 1)
        PROVE  chunks'[i].last < chunks'[j].first
    <3>1. i \in 1..n
      BY <1>2
    <3>2. CASE j = n + 1
      <4>1. chunks[i].last <= done /\ chunks[i].last \in Nat
        BY <1>8, <3>1
      <4>2. QED
        BY <1>1, <1>3, <1>5, <3>1, <3>2, <4>1
    <3>3. CASE j \in 1..n
      <4>1. chunks[i].last < chunks[j].first
        BY <1>2, <3>3 DEF ReplyInv, Replying!NothingCutOut
      <4>2. QED
        BY <1>3, <3>1, <3>3, <4>1
    <3>4. QED
      BY <1>4, <3>2, <3>3
  <2>2. QED
    BY <2>1
<1>12. ASSUME NEW b \in 1..done', text[b] \notin Replying!Blank
       PROVE  \E i \in 1..(n + 1) : b \in chunks'[i].first..chunks'[i].last
  <2>1. b \in 1..done \/ b \in (done + 1)..done'
    BY <1>1, <1>5
  <2>2. CASE b \in 1..done
    <3>1. PICK i \in 1..n : b \in chunks[i].first..chunks[i].last
      BY <1>2, <1>12, <2>2 DEF ReplyInv, Replying!NothingCutOut
    <3>2. i \in 1..(n + 1) /\ chunks'[i] = chunks[i]
      BY <1>2, <1>3
    <3>3. QED
      BY <3>1, <3>2
  <2>3. CASE b \in (done + 1)..done'
    <3>1. b \in t.first..t.last
      BY <1>12, <2>3
    <3>2. n + 1 \in 1..(n + 1) /\ chunks'[n + 1] = t
      BY <1>2, <1>3
    <3>3. QED
      BY <3>1, <3>2
  <2>4. QED
    BY <2>1, <2>2, <2>3
<1>13. Replying!NothingCutOut'
  BY <1>3, <1>5, <1>10, <1>11, <1>12 DEF Replying!NothingCutOut
<1>14. QED
  BY <1>6, <1>7, <1>9, <1>13 DEF ReplyInv

\* Every step keeps the invariant.
LEMMA ReplyNext ==
  ASSUME Replying!ConstantsAssumption, ReplyInv, [Replying!Next]_(Replying!vars)
  PROVE  ReplyInv'
<1>1. /\ Len(text) \in Nat /\ done \in 0..Len(text) /\ Len(chunks) \in Nat /\ Limit \in Nat
  BY LenProperties DEF Replying!ConstantsAssumption, ReplyInv, Replying!TypeOK
<1>2. CASE Replying!Split
  <2>1. PICK take, drop : take = Replying!Cut.take /\ drop = Replying!Cut.drop
    OBVIOUS
  <2>2. /\ take \in 0..Limit /\ drop \in 0..2 /\ take + drop <= Limit
        /\ \A b \in (done + take + 1)..(done + take + drop) : text[b] = NL
    BY <2>1, CutFacts DEF ReplyInv
  <2>3. PICK f, l : f = done + 1 /\ l = done + take
    OBVIOUS
  <2>4. f \in Nat \ {0} /\ l \in Nat /\ f <= l + 1
    BY <1>1, <2>2, <2>3
  <2>5. PICK t : t = Replying!Trim([first |-> f, last |-> l])
    OBVIOUS
  <2>6. /\ t \in Replying!Slice /\ f <= t.first /\ t.last <= l /\ t.last - t.first <= l - f
        /\ \A b \in f..l : text[b] \notin Replying!Blank => b \in t.first..t.last
    BY <2>4, <2>5, TrimFacts
  <2>7. /\ next = 0 /\ Len(text) - done > Limit /\ chunks' = Append(chunks, t)
        /\ done' = done + take + drop /\ UNCHANGED <<text, next, posted>>
    BY <1>2, <2>1, <2>3, <2>5 DEF Replying!Split
  <2>8. t.first \in Nat /\ t.last \in Nat
    BY <2>6 DEF Replying!Slice
  <2>9. /\ done' \in done..Len(text) /\ next' \in 0..1 /\ next' # 1
        /\ done < t.first /\ t.last <= done' /\ t.last - t.first < Limit
    BY <1>1, <2>2, <2>3, <2>6, <2>7, <2>8
  <2>10. ASSUME NEW b \in (done + 1)..done', text[b] \notin Replying!Blank
         PROVE  b \in t.first..t.last
    <3>1. b \in f..l \/ b \in (done + take + 1)..(done + take + drop)
      BY <1>1, <2>2, <2>3, <2>7
    <3>2. QED
      BY <2>2, <2>6, <2>10, <3>1 DEF Replying!Blank
  <2>11. QED
    BY <2>6, <2>7, <2>9, <2>10, ReplyAdds
<1>3. CASE Replying!SplitEnds
  <2>1. CASE done = Len(text) /\ chunks # <<>>
    <3>1. /\ next = 0 /\ next' = 1 /\ done' = done /\ done' = Len(text) /\ chunks # <<>>
          /\ UNCHANGED <<text, chunks, posted>>
      BY <1>3, <2>1 DEF Replying!SplitEnds
    <3>2. posted = {}
      BY <3>1 DEF ReplyInv, PostInv
    <3>3. Replying!TypeOK'
      BY <1>1, <3>1 DEF ReplyInv, Replying!TypeOK
    <3>4. PostInv' /\ EndInv' /\ Replying!NothingCutOut'
      BY <3>1, <3>2 DEF ReplyInv, PostInv, EndInv, Replying!NothingCutOut
    <3>5. QED
      BY <3>3, <3>4 DEF ReplyInv
  <2>2. CASE ~(done = Len(text) /\ chunks # <<>>)
    <3>1. PICK t : t = [first |-> done + 1, last |-> Len(text)]
      OBVIOUS
    <3>2. t \in Replying!Slice /\ t.first = done + 1 /\ t.last = Len(text)
      BY <1>1, <3>1 DEF Replying!Slice
    <3>3. /\ next = 0 /\ next' = 1 /\ done' = Len(text) /\ chunks' = Append(chunks, t)
          /\ Len(text) - done <= Limit /\ UNCHANGED <<text, posted>>
      BY <1>3, <2>2, <3>1 DEF Replying!SplitEnds
    <3>4. /\ done' \in done..Len(text) /\ next' \in 0..1
          /\ done < t.first /\ t.last <= done' /\ t.last - t.first < Limit
          /\ \A b \in (done + 1)..done' : b \in t.first..t.last
      BY <1>1, <3>2, <3>3
    <3>5. QED
      BY <3>2, <3>3, <3>4, ReplyAdds
  <2>3. QED
    BY <2>1, <2>2
<1>4. CASE Replying!Post
  <2>1. /\ next \in 1..Len(chunks) /\ UNCHANGED <<text, done, chunks>>
        /\ next' = next + 1 \/ next' = Len(chunks) + 1
    BY <1>4 DEF Replying!Post
  <2>2. /\ posted \subseteq 1..(next - 1)
        /\ \A j \in 1..(next - 1) : j \in posted \/ Replying!Ink(chunks[j]) = {}
    BY <2>1 DEF ReplyInv, PostInv
  <2>3. posted' = posted \/ posted' = posted \cup {next}
    BY <1>4 DEF Replying!Post
  <2>4. Replying!TypeOK'
    <3>1. next \in Nat /\ next > 0 /\ next' \in Nat
      BY <1>1, <2>1
    <3>2. posted' \subseteq 1..Len(chunks)
      BY <2>1, <2>3 DEF ReplyInv, Replying!TypeOK
    <3>3. QED
      BY <2>1, <3>1, <3>2 DEF ReplyInv, Replying!TypeOK
  <2>5. \A j \in 1..Len(chunks) : Replying!Ink(chunks[j])' = Replying!Ink(chunks[j])
    BY <2>1 DEF Replying!Ink
  <2>6. CASE next' = next + 1 /\ (next \in posted' \/ Replying!Ink(chunks[next]) = {})
    <3>1. /\ posted' \subseteq 1..(next' - 1)
          /\ \A j \in 1..(next' - 1) : j \in posted' \/ Replying!Ink(chunks[j]) = {}
      <4>1. next \in Nat /\ next' - 1 = next /\ 1..next = 1..(next - 1) \cup {next}
        BY <1>1, <2>1, <2>6
      <4>2. QED
        BY <2>2, <2>3, <2>6, <4>1
    <3>2. \A j \in 1..(next' - 1) : j \in 1..Len(chunks)
      BY <1>1, <2>1, <2>6
    <3>3. PostInv'
      <4>1. next' # 0
        BY <1>1, <2>1, <2>6
      <4>2. \A j \in 1..(next' - 1) : j \in posted' \/ Replying!Ink(chunks[j])' = {}
        BY <2>5, <3>1, <3>2
      <4>3. QED
        BY <3>1, <4>1, <4>2, Zenon DEF PostInv
    <3>4. \A i \in posted' : \A j \in 1..(i - 1) : j \in posted' \/ Replying!Ink(chunks[j])' = {}
      <4>1. ASSUME NEW i \in posted', NEW j \in 1..(i - 1) PROVE j \in 1..(next' - 1)
        BY <1>1, <2>1, <2>6, <3>1
      <4>2. QED
        BY <2>5, <3>1, <3>2, <4>1
    <3>5. QED
      BY <2>1, <2>4, <3>3, <3>4 DEF ReplyInv, EndInv, Replying!NothingCutOut
  <2>7. CASE next' = Len(chunks) + 1 /\ posted' = posted
    <3>1. PostInv'
      BY <1>1, <2>1, <2>7 DEF PostInv
    <3>2. \A i \in posted : \A j \in 1..(i - 1) : j \in posted \/ Replying!Ink(chunks[j])' = {}
      <4>1. ASSUME NEW i \in posted, NEW j \in 1..(i - 1)
            PROVE  j \in 1..(next - 1) /\ j \in 1..Len(chunks)
        BY <1>1, <2>1, <2>2
      <4>2. QED
        BY <2>2, <2>5, <4>1
    <3>3. QED
      BY <2>1, <2>4, <2>7, <3>1, <3>2 DEF ReplyInv, EndInv, Replying!NothingCutOut
  <2>8. QED
    BY <1>4, <2>6, <2>7 DEF Replying!Post
<1>5. CASE UNCHANGED Replying!vars
  BY <1>5 DEF Replying!vars, ReplyInv, Replying!TypeOK, PostInv, EndInv,
     Replying!NothingCutOut, Replying!Ink
<1>6. QED
  BY <1>2, <1>3, <1>4, <1>5 DEF Replying!Next

-----------------------------------------------------------------------------
(* The parts together.                                                     *)

\* Two instances of a module, the one of Parts and the one that has the proofs, say
\* the same: their definitions are.
LEMMA GrantsStep ==
  ASSUME Granting!Next
  PROVE  GrantsP!Next
BY DEF Granting!tasks, GrantsP!tasks, Granting!Grant, GrantsP!Grant, Granting!Call,
   GrantsP!Call, Granting!Row, GrantsP!Row, Granting!Names, GrantsP!Names,
   Granting!NameIn, GrantsP!NameIn, Granting!On, GrantsP!On, Granting!InFlight,
   GrantsP!InFlight, Granting!Met, GrantsP!Met, Granting!Begins, GrantsP!Begins,
   Granting!CancelSystem, GrantsP!CancelSystem, Granting!GrantInsert,
   GrantsP!GrantInsert, Granting!SyncCancel, GrantsP!SyncCancel, Granting!OneLess,
   GrantsP!OneLess, Granting!SyncInsert, GrantsP!SyncInsert, Granting!SyncSkip,
   GrantsP!SyncSkip, Granting!RevokeDelete, GrantsP!RevokeDelete,
   Granting!RemovePowerSchedules, GrantsP!RemovePowerSchedules, Granting!CallFails,
   GrantsP!CallFails, Granting!SetStatus, GrantsP!SetStatus, Granting!TickUpdate,
   GrantsP!TickUpdate, Granting!TickSelects, GrantsP!TickSelects, Granting!TickMarks,
   GrantsP!TickMarks, Granting!TickEnds, GrantsP!TickEnds, Granting!TickReverts,
   GrantsP!TickReverts, Granting!TickForgets, GrantsP!TickForgets, Granting!Recover,
   GrantsP!Recover, Granting!AckRead, GrantsP!AckRead, Granting!AckWrite,
   GrantsP!AckWrite, Granting!Delay, GrantsP!Delay, Granting!Cancel, GrantsP!Cancel,
   Granting!ToolStep, GrantsP!ToolStep, Granting!TickStep, GrantsP!TickStep,
   Granting!UserStep, GrantsP!UserStep, Granting!Next, GrantsP!Next

\* The same of rogue-phd's steps.
LEMMA PapersStep ==
  ASSUME Storing!Next
  PROVE  PapersP!Next
BY DEF Storing!Idle, PapersP!Idle, Storing!Put, PapersP!Put, Storing!Search,
   PapersP!Search, Storing!NextQuery, PapersP!NextQuery, Storing!Unseen, PapersP!Unseen,
   Storing!QueryAnswered, PapersP!QueryAnswered, Storing!QueryLimited,
   PapersP!QueryLimited, Storing!QueryFails, PapersP!QueryFails, Storing!Stored,
   PapersP!Stored, Storing!Duplicate, PapersP!Duplicate, Storing!StorePaper,
   PapersP!StorePaper, Storing!Lookup, PapersP!Lookup, Storing!StoreFails,
   PapersP!StoreFails, Storing!Record, PapersP!Record, Storing!LinkTo, PapersP!LinkTo,
   Storing!Contains, PapersP!Contains, Storing!Linked, PapersP!Linked,
   Storing!LinkSearch, PapersP!LinkSearch, Storing!LinkTopic, PapersP!LinkTopic,
   Storing!LinkFails, PapersP!LinkFails, Storing!Respond, PapersP!Respond,
   Storing!Download, PapersP!Download, Storing!Fetched, PapersP!Fetched,
   Storing!FetchFails, PapersP!FetchFails, Storing!UpdatePaper, PapersP!UpdatePaper,
   Storing!QueryStep, PapersP!QueryStep, Storing!StoreStep, PapersP!StoreStep,
   Storing!LinkStep, PapersP!LinkStep, Storing!PdfStep, PapersP!PdfStep,
   Storing!CallStep, PapersP!CallStep, Storing!Next, PapersP!Next, Storing!tables,
   PapersP!tables, Storing!pdfs, PapersP!pdfs

\* What the proofs start from carries over, and what they end in carries back.
LEMMA GrantsSame ==
  /\ Granting!ConstantsAssumption => GrantsP!ConstantsAssumption
  /\ Granting!Init => GrantsP!Init
  /\ GrantsP!TypeOK => Granting!TypeOK
  /\ GrantsP!LastCallDecides => Granting!LastCallDecides
<1>1. Granting!ConstantsAssumption => GrantsP!ConstantsAssumption
  BY DEF Granting!ConstantsAssumption, GrantsP!ConstantsAssumption, Granting!Grant,
     GrantsP!Grant, Granting!Call, GrantsP!Call
<1>2. Granting!Init => GrantsP!Init
  BY DEF Granting!Init, GrantsP!Init, Granting!Names, GrantsP!Names
<1>3. GrantsP!TypeOK => Granting!TypeOK
  BY DEF Granting!TypeOK, GrantsP!TypeOK, Granting!Grant, GrantsP!Grant,
     Granting!Names, GrantsP!Names, Granting!Row, GrantsP!Row, Granting!Call,
     GrantsP!Call
<1>4. GrantsP!LastCallDecides => Granting!LastCallDecides
  BY DEF Granting!LastCallDecides, GrantsP!LastCallDecides, Granting!LiveRows,
     GrantsP!LiveRows, Granting!RowsBy, GrantsP!RowsBy
<1>5. QED
  BY <1>1, <1>2, <1>3, <1>4

\* Likewise for the papers.
LEMMA PapersSame ==
  /\ Storing!ConstantsAssumption => PapersP!ConstantsAssumption
  /\ Storing!Init => PapersP!Init
  /\ PapersP!TypeOK => Storing!TypeOK
  /\ PapersP!NewPapersLinked => Storing!NewPapersLinked
<1>1. Storing!ConstantsAssumption => PapersP!ConstantsAssumption
  BY DEF Storing!ConstantsAssumption, PapersP!ConstantsAssumption, Storing!Found,
     PapersP!Found, Storing!Range, PapersP!Range
<1>2. Storing!Init => PapersP!Init
  BY DEF Storing!Init, PapersP!Init, Storing!Idle, PapersP!Idle
<1>3. PapersP!TypeOK => Storing!TypeOK
  BY DEF Storing!TypeOK, PapersP!TypeOK, Storing!Found, PapersP!Found, Storing!Range,
     PapersP!Range, Storing!Call, PapersP!Call
<1>4. PapersP!NewPapersLinked => Storing!NewPapersLinked
  BY DEF Storing!NewPapersLinked, PapersP!NewPapersLinked, Storing!Contains,
     PapersP!Contains
<1>5. QED
  BY <1>1, <1>2, <1>3, <1>4

\* A step of the system is one of each part, or leaves the part as it is.
LEMMA PartSteps ==
  ASSUME [Next]_vars
  PROVE  /\ [GrantsP!Next]_(GrantsP!vars) /\ [PapersP!Next]_(PapersP!vars)
         /\ [Saving!Next]_(Saving!vars) /\ [Opening!Next]_(Opening!vars)
         /\ [Replying!Next]_(Replying!vars)
<1>1. /\ Granting!Next \/ UNCHANGED grantVars
      /\ Storing!Next \/ UNCHANGED paperVars
      /\ Saving!Next \/ UNCHANGED backupVars
      /\ Opening!Next \/ UNCHANGED storeVars
      /\ Replying!Next \/ UNCHANGED replyVars
  BY DEF Next, vars
<1>2. /\ UNCHANGED grantVars => UNCHANGED GrantsP!vars
      /\ UNCHANGED paperVars => UNCHANGED PapersP!vars
      /\ UNCHANGED backupVars => UNCHANGED Saving!vars
      /\ UNCHANGED storeVars => UNCHANGED Opening!vars
      /\ UNCHANGED replyVars => UNCHANGED Replying!vars
  BY DEF grantVars, paperVars, backupVars, storeVars, replyVars, GrantsP!vars,
     GrantsP!tasks, PapersP!vars, PapersP!tables, PapersP!pdfs, Saving!vars, Saving!disk,
     Saving!git, Opening!vars, Replying!vars
<1>3. QED
  BY <1>1, <1>2, GrantsStep, PapersStep

\* A behaviour of the system is one of its grants.
LEMMA GrantsSpec == Spec => GrantsP!Spec
<1>1. Init => GrantsP!Init
  BY GrantsSame DEF Init
<1>2. [Next]_vars => [GrantsP!Next]_(GrantsP!vars)
  BY PartSteps
<1>3. QED
  BY <1>1, <1>2, PTL DEF Spec, GrantsP!Spec

\* A behaviour of the system is one of its papers.
LEMMA PapersSpec == Spec => PapersP!Spec
<1>1. Init => PapersP!Init
  BY PapersSame DEF Init
<1>2. [Next]_vars => [PapersP!Next]_(PapersP!vars)
  BY PartSteps
<1>3. QED
  BY <1>1, <1>2, PTL DEF Spec, PapersP!Spec

\* The invariants of the other parts hold throughout.
LEMMA Invariants == Spec => [](StoreInv /\ BackupInv /\ ReplyInv)
<1>1. Init => StoreInv /\ BackupInv /\ ReplyInv
  BY PartsAssumption, StoreInit, BackupInit, ReplyInit DEF Init
<1>2. StoreInv /\ BackupInv /\ ReplyInv /\ [Next]_vars => (StoreInv /\ BackupInv /\ ReplyInv)'
  BY PartsAssumption, PartSteps, StoreNext, BackupNext, ReplyNext
<1>3. QED
  BY <1>1, <1>2, PTL DEF Spec

-----------------------------------------------------------------------------
(* What the parts promise.                                                 *)

\* Every part keeps the shape of its state: what is in flight is a row, what a row says
\* is on disk is, the remote is never ahead of the commits, handles that were closed had
\* been opened, and posting begins when all is split.
THEOREM TypeCorrect == Spec => []TypeOK
<1>1. Spec => []GrantsP!TypeOK /\ []PapersP!TypeOK
  BY PartsAssumption, GrantsSame, PapersSame, GrantsSpec, PapersSpec,
     GrantsP!TypeCorrect, PapersP!TypeCorrect, PTL
<1>2. GrantsP!TypeOK /\ PapersP!TypeOK /\ StoreInv /\ BackupInv /\ ReplyInv => TypeOK
  BY GrantsSame, PapersSame DEF TypeOK, StoreInv, BackupInv, ReplyInv
<1>3. QED
  BY <1>1, <1>2, Invariants, PTL

\* SyncPowerSchedules and RemovePowerSchedules: once a call on a power has cancelled its
\* tasks with none of them in flight, its inserts alone make the power's schedule, with
\* lost UPDATEs, acks that overlap and recoveries, until something meets it.
THEOREM LastCallHolds == Spec => []LastCallDecides
<1>1. GrantsP!ConstantsAssumption
  BY PartsAssumption, GrantsSame
<1>2. GrantsP!LastCallDecides => LastCallDecides
  BY GrantsSame DEF LastCallDecides
<1>3. QED
  BY <1>1, <1>2, GrantsSpec, GrantsP!LastCallHolds, PTL

\* A task that was cancelled with nobody about to update it by its id never runs again:
\* neither the tick's query nor Recover nor an Ack takes it.
THEOREM CancelledStays == Spec => CancelledForGood
<1>1. GrantsP!ConstantsAssumption
  BY PartsAssumption, GrantsSame
<1>2. GrantsP!CancelledForGood => CancelledForGood
  BY DEF CancelledForGood, Granting!CancelledForGood, GrantsP!CancelledForGood,
     Granting!Gone, GrantsP!Gone, Granting!InFlight, GrantsP!InFlight, Granting!vars,
     GrantsP!vars, Granting!tasks, GrantsP!tasks
<1>3. QED
  BY <1>1, <1>2, GrantsSpec, GrantsP!CancelledStays, PTL

\* storePaper, handleSearchPapers: whatever other calls insert on the same connections,
\* and whichever statements fail, the papers that a search added are linked to it.
THEOREM PapersAreLinked == Spec => []NewPapersLinked
<1>1. PapersP!ConstantsAssumption
  BY PartsAssumption, PapersSame
<1>2. PapersP!NewPapersLinked => NewPapersLinked
  BY PapersSame DEF NewPapersLinked
<1>3. QED
  BY <1>1, <1>2, PapersSpec, PapersP!PapersAreLinked, PTL

\* handleBackup: whatever other calls, writes and checkpoints do between its git commands
\* and while git add reads the files, what a call reports is committed, and pushed if it
\* says so, but for what it committed of a copy that a checkpoint had torn.
THEOREM ReportsAreTrue == Spec => []ReportsHold
<1>1. BackupInv => ReportsHold
  BY DEF BackupInv, Sound, ReportsHold, Saving!ReportsHold, Saving!Reported
<1>2. QED
  BY <1>1, Invariants, PTL

\* getOrOpenDB and Close, in any order and from any number of goroutines, leak no
\* handle.
THEOREM NoHandleLeaks == Spec => []NoneLeaked
<1>1. StoreInv => NoneLeaked
  BY PartsAssumption, StoreImplied DEF NoneLeaked
<1>2. QED
  BY <1>1, Invariants, PTL

\* SplitMessage and sendChunked: whatever the limit and the text, every byte of it that
\* is no blank is in a chunk, the chunks are in order and fit in a message, and those
\* posted are the first ones.
THEOREM NothingIsCutOut == Spec => []NothingCutOut
<1>1. ReplyInv => NothingCutOut
  BY DEF ReplyInv, NothingCutOut
<1>2. QED
  BY <1>1, Invariants, PTL
=============================================================================
