CONSTANTS
  o1 = o1
  o2 = o2
  None = None
  ObjectID <- MCTwoObjects
  Version = {1, 2}
  Data = {"a", "b"}
  Digest = {"t1"}
  Info = {"i"}
  Account = {"alice"}
  MaxBalance = 1
  fork_checkpoint = 5
  Mainnet <- MCMainnet
  Reader = {"r"}
  Slot = {}
  File = {}
  Keys <- MCKeys
  EventChoice <- MCDeposits
  MAX_ATTEMPTS = 5
SPECIFICATION FairSpec
INVARIANT TypeOK
INVARIANT BatchReadsAreAtomic
PROPERTY ReadsTerminate
