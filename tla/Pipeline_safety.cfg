SPECIFICATION Spec
CONSTANTS
  cli = cli
  telegram = telegram
  peer = peer
  unknown = unknown
  alice = alice
  bob = bob
  Origins = {cli, telegram, peer, unknown}
  Sources = {cli, telegram, peer}
  AgentSources = {peer}
  Tick = "tick"
  Drain = "drain"
  Readers = {"reader"}
  Flushers = {"flush"}
  Emits <- MCEmits
  Loop = "loop"
  None = None
  NoUser = NoUser
  Users = {alice, bob, NoUser}
  Roots = {alice}
  RequireApproval = TRUE
  MaxDepth = 1
  InboundCap = 2
  Redirects = {}
  MaxMsgs = 3
  MaxHops = 1
INVARIANT TypeOK
INVARIANT NothingLost
INVARIANT GateStopsHops
INVARIANT StopOrder
PROPERTY ImplementsIntake
CHECK_DEADLOCK FALSE
