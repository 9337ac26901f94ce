------------------------------- MODULE Store --------------------------------
(***************************************************************************)
(* core/store.go: the cache of database handles that the components of a   *)
(* process share, opened on first use under a lock that is taken twice,    *)
(* and Close, after which a component still running opens them again. A    *)
(* section under the lock is one step.                                     *)
(***************************************************************************)
EXTENDS Naturals

CONSTANTS
  Callers,    \* goroutines that ask for a database
  Spaces,     \* namespaces
  None,
  MaxHandles  \* bound of the model: databases opened

Handles == 1..MaxHandles

ConstantsAssumption == MaxHandles \in Nat /\ None \notin Spaces /\ None \notin Handles

VARIABLES
  dbs,     \* dbs[n]: cached handle of namespace n
  opened,  \* handles opened so far
  closed,  \* those of them that were closed
  calls    \* calls[c]: namespace asked for, next step, handle held

vars == <<dbs, opened, closed, calls>>

Call == [space : Spaces \cup {None}, step : {"idle", "check", "open"},
         handle : Handles \cup {None}]

TypeOK ==
  /\ dbs \in [Spaces -> Handles \cup {None}]
  /\ opened \in 0..MaxHandles /\ closed \subseteq 1..opened
  /\ calls \in [Callers -> Call]

Init ==
  /\ dbs = [n \in Spaces |-> None] /\ opened = 0 /\ closed = {}
  /\ calls = [c \in Callers |-> [space |-> None, step |-> "idle", handle |-> None]]

\* Namespace(n).DB()
Ask(c, n) ==
  /\ calls[c].step = "idle"
  /\ calls' = [calls EXCEPT ![c] = [space |-> n, step |-> "check", handle |-> None]]
  /\ UNCHANGED <<dbs, opened, closed>>

Has(c, h) == calls' = [calls EXCEPT ![c].step = "idle", ![c].handle = h]

\* getOrOpenDB under the read lock
Check(c) ==
  LET h == dbs[calls[c].space] IN
  /\ calls[c].step = "check"
  /\ IF h # None THEN Has(c, h) ELSE calls' = [calls EXCEPT ![c].step = "open"]
  /\ UNCHANGED <<dbs, opened, closed>>

OpenAgain(c) ==
  /\ calls[c].step = "open" /\ opened < MaxHandles
  /\ opened' = opened + 1
  /\ dbs' = [dbs EXCEPT ![calls[c].space] = opened'] /\ Has(c, opened')
  /\ UNCHANGED closed

\* getOrOpenDB under the write lock: the check again, the open, which may fail.
Open(c) ==
  LET n == calls[c].space IN
  /\ calls[c].step = "open"
  /\ \/ dbs[n] # None /\ Has(c, dbs[n]) /\ UNCHANGED <<dbs, opened>>
     \/ /\ dbs[n] = None /\ opened < MaxHandles /\ opened' = opened + 1
        /\ dbs' = [dbs EXCEPT ![n] = opened'] /\ Has(c, opened')
     \/ dbs[n] = None /\ Has(c, None) /\ UNCHANGED <<dbs, opened>>
  /\ UNCHANGED closed

\* Close: every handle in the cache, and the cache is emptied.
Close ==
  /\ closed' = closed \cup {dbs[n] : n \in {m \in Spaces : dbs[m] # None}}
  /\ dbs' = [n \in Spaces |-> None]
  /\ UNCHANGED <<opened, calls>>

Next ==
  \/ \E c \in Callers : Check(c) \/ Open(c) \/ \E n \in Spaces : Ask(c, n)
  \/ Close

Spec == Init /\ [][Next]_vars

\* No handle leaks: one that was opened is in the cache, for one namespace, until
\* it is closed, and callers that hold different handles of a namespace have had
\* it closed between them.
NoneLeaked ==
  /\ \A h \in (1..opened) \ closed : \E n \in Spaces : \A m \in Spaces : dbs[m] = h <=> m = n
  /\ \A c, d \in Callers :
       /\ calls[c].space = calls[d].space
       /\ calls[c].handle # None /\ calls[d].handle # None
       => calls[c].handle = calls[d].handle \/ {calls[c].handle, calls[d].handle} \cap closed # {}

=============================================================================
