SPECIFICATION FairSpec
CONSTANTS
  cli = cli
  telegram = telegram
  peer = peer
  unknown = unknown
  alice = alice
  bob = alice
  Origins = {cli, telegram, peer, unknown}
  Sources = {cli, telegram}
  AgentSources = {}
  Tick = "tick"
  Drain = "drain"
  Readers = {"reader"}
  Flushers = {}
  Emits <- MCEmits
  Loop = "loop"
  None = None
  NoUser = NoUser
  Users = {alice, NoUser}
  Roots = {alice}
  RequireApproval = TRUE
  MaxDepth = 1
  InboundCap = 1
  Redirects = {}
  MaxMsgs = 3
  MaxHops = 0
PROPERTY StopEnds
PROPERTY MessageSettles
CHECK_DEADLOCK FALSE
