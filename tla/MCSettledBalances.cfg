CONSTANTS
  o1 = o1
  o2 = o2
  None = None
  ObjectID <- MCOneObject
  Version = {1, 2, 3}
  Data = {"a", "b"}
  Digest = {"t1", "t2"}
  Info = {"i"}
  Account = {"alice", "bob"}
  MaxBalance = 3
  fork_checkpoint = 5
  Mainnet <- MCMainnet
  Reader = {}
  Slot = {}
  File = {}
  Keys <- MCNoKeys
  EventChoice <- MCEventChoice
  MAX_ATTEMPTS = 5
SPECIFICATION HistorySpec
INVARIANT BalancesAreNet
