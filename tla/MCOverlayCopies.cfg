CONSTANTS
  o1 = o1
  o2 = o2
  None = None
  ObjectID <- MCOneObject
  Version = {1, 2, 3}
  Data = {"a", "b"}
  Digest = {"t1", "t2"}
  Info = {"i"}
  Account = {}
  MaxBalance = 1
  fork_checkpoint = 5
  Mainnet <- MCMainnet
  Reader = {}
  Slot = {"s"}
  File = {"f"}
  Keys <- MCNoKeys
  EventChoice <- MCNoEvents
  MAX_ATTEMPTS = 5
SPECIFICATION Spec
INVARIANT StateCoherent
PROPERTY TouchedStaysTouched
PROPERTY ImplementsForkView
