SPECIFICATION Spec
CONSTANTS
  Loops = {"old", "new"}
  RequireApproval <- MCRequireApproval
  Users = {"alice"}
  Roots <- MCRoots
  Channels = {"here"}
  Global = "everywhere"
  Powers = {"digest"}
  Loadable = {"digest", "powers"}
  RootPower = "powers"
  None = None
  MaxMessages = 3
INVARIANT TypeOK
INVARIANT OneChat
INVARIANT RunsFit
INVARIANT PowersHeld
INVARIANT MemoryKept
PROPERTY DecisionsStay
CHECK_DEADLOCK FALSE
