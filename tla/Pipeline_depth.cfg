SPECIFICATION Spec
CONSTANTS
  cli = cli
  telegram = telegram
  peer = peer
  unknown = unknown
  alice = alice
  bob = bob
  Origins = {cli, telegram, peer, unknown}
  Sources = {cli, telegram, peer}
  AgentSources = {peer}
  Tick = "tick"
  Drain = "drain"
  Readers = {}
  Flushers = {"flush"}
  Emits <- MCEmits
  Loop = "loop"
  None = None
  NoUser = NoUser
  Users = {alice, bob, NoUser}
  Roots = {alice}
  RequireApproval = FALSE
  MaxDepth = 1
  InboundCap = 1
  Redirects = {}
  MaxMsgs = 1
  MaxHops = 2
INVARIANT HopsBounded
CHECK_DEADLOCK FALSE
