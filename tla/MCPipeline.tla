----------------------------- MODULE MCPipeline -----------------------------
(* Small instances of Pipeline for TLC.                                    *)
EXTENDS Pipeline

CONSTANTS cli, telegram, peer, unknown, alice, bob

\* A line is the cli user's; a chat buffer any telegram user's; a task goes back
\* to the source, the user and with the reply flag it was scheduled with.
MCEmits ==
  [p \in Producers |->
     CASE p \in Readers -> [src : {cli}, user : {alice}, reply : {TRUE}]
       [] p = Tick -> [src : (AgentSources \cup {unknown}), user : {bob}, reply : BOOLEAN]
       [] OTHER -> [src : {telegram}, user : {bob}, reply : {TRUE}]]
=============================================================================
