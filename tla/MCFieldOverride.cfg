CONSTANTS
  None = None
  ObjectID <- MCObjectID
  Version <- MCVersion
  Data <- MCData
  Digest = {"digest"}
  Info = {"tx"}
  Account = {}
  MaxBalance = 0
  fork_checkpoint = 1
  Mainnet <- MCMainnet
  Runner = {a, b}
  Coin = "coin"
  Parent = "0x5"
  Child = "0x5.inner"
  Pins <- MCPins
  Party <- MCParty
  MaxValue = 12
  Budgets = {3}
  Overrides = {0, 3}
  MaxRuns = 2
  MaxReads = 2
  MaxWrites = 1
SYMMETRY Runners
SPECIFICATION Spec
INVARIANT FieldOverridesAreSeen
