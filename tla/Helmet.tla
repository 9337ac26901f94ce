------------------------------- MODULE Helmet -------------------------------
(***************************************************************************)
(* What the pipeline decides about a message from its tables, and what it  *)
(* leaves in them: core/helmet.go (the user, the chat, the powers), the    *)
(* approval gate, core/cerebro.go (the session) and the usage record of    *)
(* core/warp.go. Each loop handles one message at a time, but a pipeline   *)
(* that was killed and not waited for, or one of another configuration,    *)
(* works on the same data directory, and so do rogue-iam's tools. Every    *)
(* statement is a step.                                                    *)
(*                                                                         *)
(* One source and one agent: a chat is one of a channel.                   *)
(***************************************************************************)
EXTENDS Naturals, FiniteSets

CONSTANTS
  Loops,           \* pipeline processes
  Users,           \* user ids
  RequireApproval, Roots, \* of l's configuration: the gate, whom its resolver calls root
  Channels, Global,\* channel ids; the scope "" of a grant
  Powers,          \* names of the powers that are granted
  RootPower,       \* "powers", which root always has
  Loadable,        \* those of them that have a readable file
  None,
  MaxMessages      \* bound of the model: messages taken, and chats created

Row   == [approved : BOOLEAN, blocked : BOOLEAN]
Rows  == Users \X (Channels \cup {Global}) \X Powers
Chats == 1..MaxMessages

ASSUME ConstantsAssumption ==
  /\ RequireApproval \in [Loops -> BOOLEAN] /\ Roots \in [Loops -> SUBSET Users]
  /\ Loadable \subseteq Powers \cup {RootPower}
  /\ Global \notin Channels /\ None \notin Row /\ None \notin Users \cup Channels
  /\ MaxMessages \in Nat

VARIABLES
  users,     \* users[u]: the row of u, or None
  chats,     \* chats[ch]: the chat id of the channel, 0 if it has none
  ids,       \* chat ids generated so far
  grants,    \* the table user_powers, of <<user, scope, power>>
  sessions,  \* sessions[id]: runs that the saved session of a chat goes back to
  tracked,   \* the table user_channels, of <<user, channel>>
  usage,     \* user and channel of the rows of usage_stats
  loops,     \* loops[l]: the message l handles, and where it is
  taken,     \* messages taken so far
  fit,       \* history: loops whose user was fit for a run between take and row
  held,      \* history: held[l], rows there all through l's two queries; powers there
             \* at some moment of them; whether one of them failed
  saves,     \* history: saves[ch], sessions saved for messages of the channel
  excused    \* history: channels worked on by two loops at once, or whose session
             \* could not be read, or was emptied by the provider

tables == <<users, chats, ids, grants, sessions, tracked, usage>>
hist   == <<fit, held, saves, excused>>
vars   == <<tables, loops, taken, hist>>

Steps == {"idle", "schema", "user", "newuser", "chat", "newchat", "track", "channel",
          "global", "gate", "load", "run", "save", "usage"}
Idle    == [at |-> "idle", user |-> None, ch |-> None, row |-> None, chat |-> 0,
            powers |-> {}, base |-> 0]
Holding == [always : SUBSET Rows, ever : SUBSET Powers, failed : BOOLEAN]
Nothing == [always |-> {}, ever |-> {}, failed |-> FALSE]

Message == [at : Steps, user : Users \cup {None}, ch : Channels \cup {None},
            row : Row \cup {None}, chat : Chats \cup {0},
            powers : SUBSET (Powers \cup {RootPower}), base : Nat]

TypeOK ==
  /\ users \in [Users -> Row \cup {None}]
  /\ ids \in 0..MaxMessages /\ chats \in [Channels -> 0..ids]
  /\ grants \subseteq Rows
  /\ sessions \in [Chats -> Nat]
  /\ tracked \subseteq Users \X Channels /\ usage \subseteq Users \X Channels
  /\ loops \in [Loops -> Message]
  /\ taken \in 0..MaxMessages
  /\ \A u \in Users, ch \in Channels :
       <<u, ch>> \in tracked \cup usage => users[u] # None /\ chats[ch] # 0
  /\ fit \subseteq Loops /\ excused \subseteq Channels
  /\ held \in [Loops -> Holding]
  /\ saves \in [Channels -> Nat]

Init ==
  /\ users = [u \in Users |-> None] /\ chats = [ch \in Channels |-> 0] /\ ids = 0
  /\ grants = {} /\ sessions = [i \in Chats |-> 0] /\ tracked = {} /\ usage = {}
  /\ loops = [l \in Loops |-> Idle] /\ taken = 0
  /\ fit = {} /\ held = [l \in Loops |-> Nothing]
  /\ saves = [ch \in Channels |-> 0] /\ excused = {}

-----------------------------------------------------------------------------
At(l, step)   == loops[l].at = step
Put(l, m)     == loops' = [loops EXCEPT ![l] = m]
Goto(l, step) == Put(l, [loops[l] EXCEPT !.at = step])
Ends(l)       == Put(l, Idle)

\* The approval gate, of a user's row or of None, a new user; and all that the row
\* must say for a run.
Approved(l, u, row) ==
  RequireApproval[l] => u \in Roots[l] \/ (row # None /\ row.approved)
Fit(l, u, row) == (row # None => ~row.blocked) /\ Approved(l, u, row)

\* A message is received.
Take(l, u, ch) ==
  /\ At(l, "idle") /\ taken < MaxMessages /\ taken' = taken + 1
  /\ Put(l, [Idle EXCEPT !.at = "schema", !.user = u, !.ch = ch])
  /\ fit' = IF Fit(l, u, users[u]) THEN fit \cup {l} ELSE fit \ {l}
  /\ held' = [held EXCEPT ![l] = Nothing]
  /\ UNCHANGED <<tables, saves, excused>>

\* The tables, and the channels of users that usage_stats knows.
EnsureSchema(l) ==
  /\ At(l, "schema") /\ Goto(l, "user")
  /\ tracked' = tracked \cup usage
  /\ UNCHANGED <<users, chats, ids, grants, sessions, usage, taken, hist>>

\* A database error up to here rejects the message.
Reject(l) ==
  /\ loops[l].at \in {"schema", "user", "newuser", "chat", "newchat"}
  /\ Ends(l)
  /\ UNCHANGED <<tables, taken, hist>>

-----------------------------------------------------------------------------
(* getOrCreateUser and getOrCreateChat: a SELECT, then an INSERT that      *)
(* fails if another process was faster.                                    *)

ReadUserOnly(l) ==
  LET row == users[loops[l].user] IN
  /\ At(l, "user")
  /\ \/ row = None /\ Goto(l, "newuser")
     \/ row # None /\ Put(l, [loops[l] EXCEPT !.at = "chat", !.row = row])
  /\ UNCHANGED <<tables, taken, hist>>

\* Blocked users are rejected.
ReadUser(l) ==
  LET row == users[loops[l].user] IN
  /\ At(l, "user")
  /\ \/ row = None /\ Goto(l, "newuser")
     \/ row # None /\ row.blocked /\ Ends(l)
     \/ row # None /\ ~row.blocked /\ Put(l, [loops[l] EXCEPT !.at = "chat", !.row = row])
  /\ UNCHANGED <<tables, taken, hist>>

NewUser == [approved |-> FALSE, blocked |-> FALSE]

InsertUserReplace(l) ==
  /\ At(l, "newuser")
  /\ users' = [users EXCEPT ![loops[l].user] = NewUser]
  /\ Put(l, [loops[l] EXCEPT !.at = "chat", !.row = NewUser])
  /\ UNCHANGED <<chats, ids, grants, sessions, tracked, usage, taken, hist>>

InsertUserForgotten(l) ==
  /\ At(l, "newuser")
  /\ Put(l, [loops[l] EXCEPT !.at = "chat", !.row = NewUser])
  /\ UNCHANGED <<tables, taken, hist>>

InsertUser(l) ==
  /\ At(l, "newuser")
  /\ \/ /\ users[loops[l].user] = None
        /\ users' = [users EXCEPT ![loops[l].user] = NewUser]
        /\ Put(l, [loops[l] EXCEPT !.at = "chat", !.row = NewUser])
     \/ users[loops[l].user] # None /\ Ends(l) /\ UNCHANGED users
  /\ UNCHANGED <<chats, ids, grants, sessions, tracked, usage, taken, hist>>

ReadChat(l) ==
  LET id == chats[loops[l].ch] IN
  /\ At(l, "chat")
  /\ \/ id = 0 /\ Goto(l, "newchat")
     \/ id # 0 /\ Put(l, [loops[l] EXCEPT !.at = "track", !.chat = id])
  /\ UNCHANGED <<tables, taken, hist>>

InsertChatAnyway(l) ==
  /\ At(l, "newchat") /\ ids < MaxMessages
  /\ ids' = ids + 1
  /\ chats' = IF chats[loops[l].ch] = 0 THEN [chats EXCEPT ![loops[l].ch] = ids'] ELSE chats
  /\ Put(l, [loops[l] EXCEPT !.at = "track", !.chat = ids'])
  /\ UNCHANGED <<users, grants, sessions, tracked, usage, taken, hist>>

InsertChat(l) ==
  /\ At(l, "newchat")
  /\ \/ /\ chats[loops[l].ch] = 0 /\ ids < MaxMessages
        /\ ids' = ids + 1 /\ chats' = [chats EXCEPT ![loops[l].ch] = ids']
        /\ Put(l, [loops[l] EXCEPT !.at = "track", !.chat = ids'])
     \/ chats[loops[l].ch] # 0 /\ Ends(l) /\ UNCHANGED <<chats, ids>>
  /\ UNCHANGED <<users, grants, sessions, tracked, usage, taken, hist>>

\* trackUserChannel, whose error is ignored.
Track(l) ==
  /\ At(l, "track") /\ Goto(l, "channel")
  /\ tracked' \in {tracked, tracked \cup {<<loops[l].user, loops[l].ch>>}}
  /\ UNCHANGED <<users, chats, ids, grants, sessions, usage, taken, hist>>

-----------------------------------------------------------------------------
(* resolvePowerSet: the grants for the channel, then the global ones.      *)

Granted(table, u, scope) == {p \in Powers : <<u, scope, p>> \in table}

\* The rows that matter to l.
Own(table, l) == {r \in table : r[1] = loops[l].user /\ r[2] \in {loops[l].ch, Global}}
PowersOf(rows) == {r[3] : r \in rows}

QueryChannel(l) ==
  /\ At(l, "channel")
  /\ Put(l, [loops[l] EXCEPT !.at = "global",
                             !.powers = Granted(grants, loops[l].user, loops[l].ch)])
  /\ held' = [held EXCEPT ![l] = [always |-> Own(grants, l), ever |-> PowersOf(Own(grants, l)),
                                  failed |-> FALSE]]
  /\ UNCHANGED <<tables, taken, fit, saves, excused>>

\* The message goes on without any power, root's included.
QueryChannelFails(l) ==
  /\ At(l, "channel") /\ Goto(l, "gate")
  /\ held' = [held EXCEPT ![l].failed = TRUE]
  /\ UNCHANGED <<tables, taken, fit, saves, excused>>

\* Powers without a readable file are left out.
Resolve(l, names) ==
  LET root == IF loops[l].user \in Roots[l] THEN {RootPower} ELSE {} IN
  Put(l, [loops[l] EXCEPT !.at = "gate", !.powers = (names \cup root) \cap Loadable])

QueryGlobalOnly(l) ==
  /\ At(l, "global")
  /\ Resolve(l, Granted(grants, loops[l].user, Global))
  /\ UNCHANGED <<tables, taken, hist>>

QueryGlobal(l) ==
  /\ At(l, "global")
  /\ Resolve(l, loops[l].powers \cup Granted(grants, loops[l].user, Global))
  /\ UNCHANGED <<tables, taken, hist>>

\* An error of the second query is ignored: the global powers are missing.
QueryGlobalFails(l) ==
  /\ At(l, "global") /\ Resolve(l, loops[l].powers)
  /\ held' = [held EXCEPT ![l].failed = TRUE]
  /\ UNCHANGED <<tables, taken, fit, saves, excused>>

\* The approval gate, on the row as it was read, of which nothing is needed later.
Gate(l) ==
  /\ At(l, "gate")
  /\ LET approved == Approved(l, loops[l].user, loops[l].row) IN
     \/ approved /\ Put(l, [loops[l] EXCEPT !.at = "load", !.row = None])
     \/ ~approved /\ Ends(l)
  /\ held' = [held EXCEPT ![l] = Nothing]
  /\ UNCHANGED <<tables, taken, fit, saves, excused>>

-----------------------------------------------------------------------------
(* Cerebro.Execute and Warp.Handle.                                        *)

\* m works on l's channel with a session it has loaded.
Working(m, l) == m # l /\ loops[m].at \in {"run", "save"} /\ loops[m].ch = loops[l].ch

Excuse(l) == excused' = excused \cup {loops[l].ch}

LoadFresh(l) ==
  /\ At(l, "load") /\ Goto(l, "run")
  /\ IF \E m \in Loops : Working(m, l) THEN Excuse(l) ELSE UNCHANGED excused
  /\ UNCHANGED <<tables, taken, fit, held, saves>>

LoadSession(l) ==
  /\ At(l, "load")
  /\ Put(l, [loops[l] EXCEPT !.at = "run", !.base = sessions[loops[l].chat]])
  /\ IF \E m \in Loops : Working(m, l) THEN Excuse(l) ELSE UNCHANGED excused
  /\ UNCHANGED <<tables, taken, fit, held, saves>>

\* A session that cannot be read is taken for none.
LoadSessionFails(l) ==
  /\ At(l, "load") /\ Goto(l, "run") /\ Excuse(l)
  /\ UNCHANGED <<tables, taken, fit, held, saves>>

ProviderFails(l) ==
  /\ At(l, "run") /\ Ends(l)
  /\ UNCHANGED <<tables, taken, hist>>

\* The provider returns a session, which goes on from the one it was given, or none.
ProviderReturns(l) ==
  /\ At(l, "run")
  /\ \E step \in {"save", "usage"} :
       Put(l, [loops[l] EXCEPT !.at = step, !.powers = {}])
  /\ UNCHANGED <<tables, taken, hist>>

SaveSession(l) ==
  /\ At(l, "save") /\ Goto(l, "usage")
  /\ sessions' = [sessions EXCEPT ![loops[l].chat] = loops[l].base + 1]
  /\ saves' = [saves EXCEPT ![loops[l].ch] = @ + 1]
  /\ UNCHANGED <<users, chats, ids, grants, tracked, usage, taken, fit, held, excused>>

\* A provider that names no session empties the one that was saved.
SaveNoSession(l) ==
  /\ At(l, "save") /\ Goto(l, "usage") /\ Excuse(l)
  /\ sessions' = [sessions EXCEPT ![loops[l].chat] = 0]
  /\ UNCHANGED <<users, chats, ids, grants, tracked, usage, taken, fit, held, saves>>

\* Its error is ignored.
SaveSessionFails(l) ==
  /\ At(l, "save") /\ Goto(l, "usage")
  /\ UNCHANGED <<tables, taken, hist>>

\* recordUsage, whose error is ignored; the reply goes its way (Pipeline).
RecordUsage(l) ==
  /\ At(l, "usage") /\ Ends(l)
  /\ usage' \in {usage, usage \cup {<<loops[l].user, loops[l].ch>>}}
  /\ UNCHANGED <<users, chats, ids, grants, sessions, tracked, taken, hist>>

\* The process dies, and another takes its place.
Die(l) ==
  /\ ~At(l, "idle") /\ Ends(l)
  /\ UNCHANGED <<tables, taken, hist>>

-----------------------------------------------------------------------------
(* rogue-iam's tools, from other processes.                                *)

SetUser(u, row) ==
  /\ users' = [users EXCEPT ![u] = row]
  /\ fit' = fit \cup {l \in Loops : /\ loops[l].at \in {"schema", "user", "newuser"}
                                    /\ loops[l].user = u /\ Fit(l, u, row)}
  /\ UNCHANGED <<chats, ids, grants, sessions, tracked, usage, loops, taken, held,
                 saves, excused>>

UserApprove(u) == users[u] # None /\ SetUser(u, [users[u] EXCEPT !.approved = TRUE])
UserBlock(u)   == users[u] # None /\ SetUser(u, [users[u] EXCEPT !.blocked = TRUE])
UserUnblock(u) == users[u] # None /\ SetUser(u, [users[u] EXCEPT !.blocked = FALSE])

SetGrants(table) ==
  /\ grants' = table
  /\ held' = [l \in Loops |->
                IF At(l, "global")
                THEN [held[l] EXCEPT !.always = @ \cap table,
                                     !.ever = @ \cup PowersOf(Own(table, l))]
                ELSE held[l]]
  /\ UNCHANGED <<users, chats, ids, sessions, tracked, usage, loops, taken, fit,
                 saves, excused>>

AssignPower(r) == r \notin grants /\ SetGrants(grants \cup {r})
RevokePower(r) == r \in grants /\ SetGrants(grants \ {r})

-----------------------------------------------------------------------------
HelmetStep(l) ==
  \/ EnsureSchema(l) \/ Reject(l) \/ ReadUser(l) \/ InsertUser(l) \/ ReadChat(l)
  \/ InsertChat(l) \/ Track(l) \/ QueryChannel(l) \/ QueryChannelFails(l)
  \/ QueryGlobal(l) \/ QueryGlobalFails(l) \/ Gate(l)
RunStep(l) ==
  \/ LoadSession(l) \/ LoadSessionFails(l) \/ ProviderFails(l) \/ ProviderReturns(l)
  \/ SaveSession(l) \/ SaveNoSession(l) \/ SaveSessionFails(l) \/ RecordUsage(l)
ToolStep ==
  \/ \E u \in Users : UserApprove(u) \/ UserBlock(u) \/ UserUnblock(u)
  \/ \E r \in Rows : AssignPower(r) \/ RevokePower(r)

Next ==
  \/ \E l \in Loops :
       \/ \E u \in Users, ch \in Channels : Take(l, u, ch)
       \/ HelmetStep(l) \/ RunStep(l) \/ Die(l)
  \/ ToolStep

Spec == Init /\ [][Next]_vars

-----------------------------------------------------------------------------
(* Properties.                                                             *)

\* Two processes never hold different conversations in one channel, nor one in two:
\* whichever of them created the chat, both use the id that the table has.
OneChat ==
  /\ \A l \in Loops : loops[l].chat # 0 => loops[l].chat = chats[loops[l].ch]
  /\ \A c, d \in Channels : c # d /\ chats[c] # 0 => chats[c] # chats[d]

\* What an administrator has decided of a user stays: no message changes it, also
\* one that found no row for the user and creates it late.
DecisionsStay ==
  [][\A u \in Users : users[u] # None /\ users'[u] # users[u] => UNCHANGED loops]_vars

\* The provider runs only for a user that was fit for it, not blocked and, with the
\* gate on, approved or root, at some moment between the receipt of the message
\* and the reading of the row.
RunsFit == \A l \in Loops : loops[l].at \in {"load", "run", "save", "usage"} => l \in fit

\* A run has no power that its user did not hold at some moment of the resolution,
\* and, unless a query failed, all those whose grant was there throughout. (A grant
\* moved from the global scope to the channel between the two queries is missed.)
PowersHeld ==
  \A l \in Loops : LET own == IF loops[l].user \in Roots[l] THEN {RootPower} ELSE {} IN
    At(l, "gate") =>
      /\ loops[l].powers \subseteq held[l].ever \cup own
      /\ ~held[l].failed =>
           (PowersOf(held[l].always) \cup own) \cap Loadable \subseteq loops[l].powers

\* A conversation goes back to every run whose session was saved, through deaths,
\* failed saves and other processes, unless two worked on it at once, its session
\* could not be read, or a provider named none.
MemoryKept ==
  \A ch \in Channels \ excused :
    saves[ch] = IF chats[ch] = 0 THEN 0 ELSE sessions[chats[ch]]

=============================================================================
